---- MODULE Spec2Model ----
(***************************************************************************)
(* Model of the WAHA WhatsApp service: the Kafka batch consumer            *)
(* (main.py consume_notifications), the bulk dispatcher (main.py           *)
(* send_bulk), the single send (main.py send_message), the gateway client  *)
(* (waha_client.py WAHAClient.send_text_message) and the recipient         *)
(* resolver (recipients.py).                                               *)
(*                                                                         *)
(* Every handler is a coroutine.  One action of the model is the code that *)
(* runs between two suspension points (await), except that the record loop *)
(* of consume_notifications takes one record per action.  A pc value names *)
(* the await the invocation is suspended at.                               *)
(***************************************************************************)
EXTENDS Integers, Sequences, FiniteSets, TLC

(***************************************************************************)
(* Bounds and input sets.                                                  *)
(***************************************************************************)
\* Largest number of records one getmany() returns.
MaxBatch == 3
\* Largest number of lines of the recipients file.
MaxLines == 3
\* The longest string number_to_chat_id is called with on its own.
MaxNumberLen == 11
\* The most lines of a recipients file given to load_recipients on its own.
MaxLoadLines == 4
\* The most records of a fetch when two invocations of consume_notifications
\* run side by side.
MaxPairBatch == 2

\* Request invocations (coroutines) that may be alive at the same time.
Invocations == {1, 2}
\* Partitions of the one subscribed topic; a TopicPartition is modelled by
\* its partition number, the topic being the same for every record.
Partitions == {0, 1}
\* Offsets a fetched record of a partition may carry.
PartitionOffsets(p) == IF p = 0 THEN 5..8 ELSE 5..6

\* Optional[int]: {} is None, {n} is the integer n.
NoInt == {}
IntOf(opt) == CHOOSE n \in opt : TRUE

(***************************************************************************)
(* Strings are sequences of one-character strings.                         *)
(***************************************************************************)
Digits == {"0", "1", "2", "3", "4", "5", "6", "7", "8", "9"}
Whitespace == {" "}

Suffix == <<"@", "c", ".", "u", "s">>
GoodNumber == <<"+", "9", "1", " ", "9", "9", "2", "0", "9", "0", "6", "2", "4", "7">>
PlainNumber == <<"9", "1", "9", "9", "2", "0", "9", "0", "6", "2", "4", "7">>
OtherNumber == <<"1", "4", "1", "5", "5", "5", "5", "0", "1", "0", "0">>
ShortNumber == <<"1", "2", "3", "4", "5">>
BlankText == <<" ", " ">>
SomeText == <<" ", "h", "i">>
EmptyText == <<>>

\* re.sub(r"\D", "", s)
DigitsOf(s) == SelectSeq(s, LAMBDA c : c \in Digits)

\* The shortest digit string that is a phone number.
MinDigits == 10

\* number_to_chat_id with "@c.us" put after the string as it is.
number_to_chat_id_appending(str) ==
    LET digits == DigitsOf(str)
    IN  IF Len(digits) >= MinDigits THEN <<str \o Suffix>> ELSE <<>>

\* number_to_chat_id asking for more than MinDigits digits.
number_to_chat_id_strict(str) ==
    LET digits == DigitsOf(str)
    IN  IF Len(digits) > MinDigits THEN <<digits \o Suffix>> ELSE <<>>

\* recipients.number_to_chat_id: the result is a one-element sequence holding
\* the chat id, or <<>> for None.
number_to_chat_id(number) ==
    LET digits == DigitsOf(number)
    IN  IF Len(digits) >= MinDigits THEN <<digits \o Suffix>> ELSE <<>>

\* str.strip()
RECURSIVE LStrip(_)
LStrip(s) ==
    IF Len(s) > 0 /\ s[1] \in Whitespace THEN LStrip(Tail(s)) ELSE s
RECURSIVE RStrip(_)
RStrip(s) ==
    IF Len(s) > 0 /\ s[Len(s)] \in Whitespace
    THEN RStrip(SubSeq(s, 1, Len(s) - 1))
    ELSE s
Strip(s) == RStrip(LStrip(s))

(***************************************************************************)
(* Record values.  A record value is absent (None), bytes json.loads       *)
(* rejects, or bytes that decode to a JSON value d.  A JSON value is an    *)
(* object with the fields of NotificationPayload, or something that is not *)
(* an object (a list, a number, a string, null).  A field is absent, or    *)
(* holds a non-zero integer, or a string.                                  *)
(***************************************************************************)
FAbsent == [t |-> "absent", v |-> <<>>]
FInt == [t |-> "int", v |-> <<>>]
FStr(s) == [t |-> "str", v |-> s]

NonObject ==
    [obj |-> FALSE, number |-> FAbsent, summary |-> FAbsent, company_name |-> FAbsent]
Objects ==
    [obj : {TRUE},
     number : {FAbsent, FInt, FStr(ShortNumber), FStr(GoodNumber)},
     summary : {FAbsent, FStr(BlankText), FStr(SomeText)},
     company_name : {FAbsent}]
        \cup {[obj |-> TRUE, number |-> FStr(GoodNumber), summary |-> FStr(SomeText),
               company_name |-> FInt]}
RecordValues ==
    {[kind |-> "null", d |-> NonObject], [kind |-> "undecodable", d |-> NonObject]}
        \cup [kind : {"json"}, d : {NonObject} \cup Objects]

\* NotificationPayload.model_validate(d) succeeds.
ModelValidates(d) ==
    /\ d.obj
    /\ d.summary.t = "str"
    /\ d.number.t = "str"
    /\ d.company_name.t \in {"absent", "str"}

\* The except ValidationError handler builds
\* ConsumeResultItem(number=d.get("number") or "", company_name=d.get("company_name")):
\* d.get raises AttributeError when d is no dict, and the item's own validation
\* raises when number is a truthy non-string or company_name a non-string.
ValidationHandlerRaises(d) ==
    \/ ~d.obj
    \/ d.number.t = "int"
    \/ d.company_name.t = "int"

(***************************************************************************)
(* The gateway's answers.                                                  *)
(***************************************************************************)
FNull == [t |-> "null", v |-> <<>>]
CONNECTED == <<"C", "O", "N", "N", "E", "C", "T", "E", "D">>
Connected_lc == <<"c", "o", "n", "n", "e", "c", "t", "e", "d">>
WORKING == <<"W", "O", "R", "K", "I", "N", "G">>
STOPPED == <<"S", "T", "O", "P", "P", "E", "D">>

\* str.upper(), on the letters the status texts use.
UpperChar(c) ==
    CASE c = "c" -> "C" [] c = "o" -> "O" [] c = "n" -> "N" [] c = "e" -> "E"
      [] c = "t" -> "T" [] c = "d" -> "D" [] c = "w" -> "W" [] c = "r" -> "R"
      [] c = "k" -> "K" [] c = "i" -> "I" [] c = "g" -> "G" [] c = "s" -> "S"
      [] c = "p" -> "P" [] OTHER -> c
Upper(s) == [k \in 1..Len(s) |-> UpperChar(s[k])]

\* The JSON object GET /api/sessions/{session} answers with: its status field
\* (absent, null or a string), its ready flag, and whether "me" is present.
StatusResponses ==
    [status : {FAbsent, FNull, FStr(CONNECTED), FStr(Connected_lc), FStr(WORKING),
               FStr(STOPPED)},
     ready : BOOLEAN,
     me : BOOLEAN]
NoStatus == [status |-> FAbsent, ready |-> FALSE, me |-> FALSE]
\* How the status query fails: a 404, another error status, no connection.
StatusFailures == {"http404", "http_error", "network"}

\* str.lower(), on the letters the response bodies use.
LowerChar(c) ==
    CASE c = "A" -> "a" [] c = "B" -> "b" [] c = "O" -> "o" [] c = "R" -> "r"
      [] c = "T" -> "t" [] c = "E" -> "e" [] c = "D" -> "d" [] OTHER -> c
Lower(s) == [k \in 1..Len(s) |-> LowerChar(s[k])]

\* sub in s
Contains(s, sub) ==
    \E k \in 1..(Len(s) - Len(sub) + 1) : SubSeq(s, k, k + Len(sub) - 1) = sub

\* The marker of line 142 and the bodies a response may have: none, one that
\* holds the marker in capitals, one that holds it in small letters, one without.
Marker == <<"a", "b", "o", "r", "t", "e", "d">>
EmptyBody == <<>>
AbortedBody == <<"A", "B", "O", "R", "T", "E", "D", "!">>
AbortedBody_lc == <<"a", "b", "o", "r", "t", "e", "d">>
ErrorBody == <<"b", "a", "d">>
Bodies == {EmptyBody, AbortedBody, AbortedBody_lc, ErrorBody}

\* What POST /api/sendText does: answers with a status code and a body, or
\* fails to connect, or times out.
PostResults ==
    [t : {"response"}, code : {0, 200, 401, 404, 500}, body : Bodies]
        \cup {[t |-> "connect_error", code |-> 0, body |-> EmptyBody],
              [t |-> "timeout", code |-> 0, body |-> EmptyBody]}

\* settings.waha_session
DefaultSession == "default"
\* The session argument: None, the empty string, or a session name.
NoneStr == "<None>"
SessionInputs == {NoneStr, "", "alt"}
\* session or self.default_session
SessionName(session) ==
    IF session = NoneStr \/ session = "" THEN DefaultSession ELSE session

\* What send_text_message returns or raises.
Ok == [cat |-> "ok", code |-> 200, info |-> NoStatus]
Raised(cat, code) == [cat |-> cat, code |-> code, info |-> NoStatus]
NotReady(resp) == [cat |-> "SessionNotReady", code |-> 400, info |-> resp]

\* ReadyDecision with status WORKING enough without the "me" field.
ReadyDecision_working(resp) ==
    IF resp.status.t = "null"
    THEN Raised("RequestError", 0)
    ELSE LET session_status_value ==
                 IF resp.status.t = "absent" THEN <<>> ELSE Upper(resp.status.v)
             is_ready == resp.ready
         IN  IF session_status_value = CONNECTED \/ is_ready
             THEN Ok
             ELSE IF session_status_value = WORKING
                  THEN Ok
                  ELSE NotReady(resp)

\* waha_client.py lines 73-97: "proceed", or the exception raised.
ReadyDecision(resp) ==
    IF resp.status.t = "null"
    THEN \* None.upper() raises AttributeError, wrapped by "except Exception"
         Raised("RequestError", 0)
    ELSE LET session_status_value ==
                 IF resp.status.t = "absent" THEN <<>> ELSE Upper(resp.status.v)
             is_ready == resp.ready
             has_me_field == resp.me
         IN  IF session_status_value = CONNECTED \/ is_ready
             THEN Ok
             ELSE IF session_status_value = WORKING /\ has_me_field
                  THEN Ok
                  ELSE NotReady(resp)

\* waha_client.py lines 98-105 and 230-237: the exception a failed status
\* query leaves send_text_message with.
StatusFailure(kind) ==
    CASE kind = "http404" -> Raised("SessionNotFound", 404)
      [] kind = "http_error" -> Raised("HTTPStatusError", 500)
      [] OTHER -> Raised("RequestError", 0)

\* Categorize without the test for an aborted request.
Categorize_plain(r) ==
    IF r.t \in {"connect_error", "timeout"}
    THEN Raised("NetworkError", 0)
    ELSE IF r.code = 401
         THEN Raised("AuthFailure", r.code)
         ELSE IF r.code >= 400
              THEN Raised("GatewayError", r.code)
              ELSE Ok

\* waha_client.py lines 121-209: the outcome of the send request.
Categorize(r) ==
    IF r.t \in {"connect_error", "timeout"}
    THEN Raised("NetworkError", 0)
    ELSE IF r.code = 0
              \/ (r.code >= 500 /\ r.body # <<>> /\ Contains(Lower(r.body), Marker))
         THEN Raised("ChannelAborted", r.code)
         ELSE IF r.code = 401
              THEN Raised("AuthFailure", r.code)
              ELSE IF r.code >= 400
                   THEN Raised("GatewayError", r.code)
                   ELSE Ok

\* The lines the recipients file may hold.
CommentLine == <<"#", " ", "9", "1", "9", "9", "2", "0", "9", "0", "6", "2", "4", "7">>
RecipientLines ==
    {PlainNumber, GoodNumber, OtherNumber, ShortNumber, CommentLine, BlankText, EmptyText}
\* The recipients file: missing, or its lines.
RECURSIVE SeqsUpTo(_, _)
SeqsUpTo(S, n) ==
    IF n = 0 THEN {<<>>}
    ELSE LET shorter == SeqsUpTo(S, n - 1)
         IN  shorter \cup {Append(q, x) : q \in {t \in shorter : Len(t) = n - 1}, x \in S}
NoFile == [exists |-> FALSE, lines |-> <<>>]
RecipientFiles ==
    {NoFile} \cup [exists : {TRUE}, lines : SeqsUpTo(RecipientLines, MaxLines)]

(***************************************************************************)
(* State.                                                                  *)
(***************************************************************************)
VARIABLES
    flow,               \* the handler an invocation runs: "consume", "bulk", "single", "off"
    pc,                 \* the await an invocation is suspended at
    max_messages,       \* consume_notifications' max_messages argument
    consumer,           \* the invocation's AIOKafkaConsumer and the calls made on it
    recs,               \* the flattened, sorted batch
    idx,                \* number of items the for loop has taken
    results,            \* results
    processed,          \* processed (consume_notifications)
    sent,               \* sent (send_bulk)
    failed,             \* failed
    skipped,            \* skipped
    last_committable,   \* last_committable: partition -> next offset to read
    exc,                \* the exception in flight while "finally" runs
    response,           \* what the handler returned or raised
    chat_ids,           \* send_bulk's recipient list
    session,            \* the session field of the request (send_bulk, send_message)
    value,              \* record.value of the record the loop body is handling
    call,               \* the running send_text_message call
    reply,              \* the gateway's answer to the request in flight, not yet received
    group_offsets,      \* the broker's committed offsets of the consumer group
    recipients_txt,     \* the recipients file
    number,             \* the argument of a call of number_to_chat_id on its own
    returned            \* what a call of number_to_chat_id or load_recipients on
                        \* its own returned: {} before it has

vars ==
    <<flow, pc, max_messages, consumer, recs, idx, results, processed, sent, failed,
      skipped, last_committable, exc, response, chat_ids, session, value, call, reply,
      group_offsets, recipients_txt, number, returned>>

\* The locals of consume_notifications and send_bulk.
locals == <<recs, idx, results, processed, sent, failed, skipped, last_committable>>

EmptyMap == [p \in {} |-> 0]

\* batch is the order of the partitions in what getmany() returned.
NewConsumer == [state |-> "new", fetches |-> 0, commits |-> 0, stops |-> 0, batch |-> <<>>]
NoExc == [code |-> 0, detail |-> "none"]
NoResponse == [kind |-> "none", code |-> 0, detail |-> "none"]
NoCall ==
    [active |-> FALSE, chat_id |-> <<>>, session_name |-> "", gets |-> <<>>,
     posts |-> <<>>]
NoValue == [kind |-> "none", d |-> NonObject]
NoPost == [t |-> "none", code |-> 0, body |-> <<>>]
NoReply == [t |-> "none", status |-> NoStatus, failure |-> "none", post |-> NoPost]
\* The answers the gateway may give to a status query and to a send request.
StatusReplies ==
    [t : {"status"}, status : StatusResponses, failure : {"none"}, post : {NoPost}]
        \cup [t : {"status_failure"}, status : {NoStatus}, failure : StatusFailures,
              post : {NoPost}]
PostReplies ==
    [t : {"post"}, status : {NoStatus}, failure : {"none"}, post : PostResults]

InitCommon ==
    /\ pc = [i \in Invocations |-> "idle"]
    /\ max_messages = [i \in Invocations |-> NoInt]
    /\ consumer = [i \in Invocations |-> NewConsumer]
    /\ recs = [i \in Invocations |-> <<>>]
    /\ idx = [i \in Invocations |-> 0]
    /\ results = [i \in Invocations |-> <<>>]
    /\ processed = [i \in Invocations |-> 0]
    /\ sent = [i \in Invocations |-> 0]
    /\ failed = [i \in Invocations |-> 0]
    /\ skipped = [i \in Invocations |-> 0]
    /\ last_committable = [i \in Invocations |-> EmptyMap]
    /\ exc = [i \in Invocations |-> NoExc]
    /\ response = [i \in Invocations |-> NoResponse]
    /\ chat_ids = [i \in Invocations |-> <<>>]
    /\ session = [i \in Invocations |-> NoneStr]
    /\ value = [i \in Invocations |-> NoValue]
    /\ call = [i \in Invocations |-> NoCall]
    /\ reply = [i \in Invocations |-> NoReply]
    /\ group_offsets = EmptyMap
    /\ returned = {}

\* One request to POST /consume-notifications.
Init ==
    /\ flow = [i \in Invocations |-> IF i = 1 THEN "consume" ELSE "off"]
    /\ InitCommon
    /\ recipients_txt = NoFile
    /\ number = <<>>

(***************************************************************************)
(* send_text_message, as far as its first await.                           *)
(***************************************************************************)
\* waha_client.py lines 65-69 and 221-227: the status query is issued.
EnterSendText(i, chat_id, sess) ==
    LET session_name == SessionName(sess)
    IN  call' = [call EXCEPT ![i] =
                    [active |-> TRUE, chat_id |-> chat_id, session_name |-> session_name,
                     gets |-> <<session_name>>, posts |-> <<>>]]

(***************************************************************************)
(* consume_notifications.                                                  *)
(***************************************************************************)
\* max_messages: None, or a cap from 0 to one less than the largest batch.
MaxMessagesInputs == {NoInt} \cup {{n} : n \in 0..(MaxBatch - 1)}

\* main.py lines 360-370: the consumer is built and start() awaited.
ConsumeBegin(i, mm) ==
    /\ flow[i] = "consume"
    /\ pc[i] = "idle"
    /\ max_messages' = [max_messages EXCEPT ![i] = mm]
    /\ consumer' = [consumer EXCEPT ![i] = NewConsumer]
    /\ pc' = [pc EXCEPT ![i] = "start"]
    /\ UNCHANGED <<recipients_txt, number, returned, flow, locals, exc, response, chat_ids, session, value, call, reply,
                   group_offsets>>

\* main.py lines 371-375: start() raises; HTTPException(503) leaves the handler.
StartFails(i) ==
    /\ pc[i] = "start"
    /\ response' = [response EXCEPT ![i] =
                       [kind |-> "raise", code |-> 503, detail |-> "start"]]
    /\ pc' = [pc EXCEPT ![i] = "done"]
    /\ UNCHANGED <<recipients_txt, number, returned, flow, max_messages, consumer, locals, exc, chat_ids, session, value,
                   call, reply, group_offsets>>

\* main.py lines 377-385: start() returned; the locals are set and getmany() awaited.
StartOk(i) ==
    /\ pc[i] = "start"
    /\ consumer' = [consumer EXCEPT ![i].state = "started"]
    /\ results' = [results EXCEPT ![i] = <<>>]
    /\ processed' = [processed EXCEPT ![i] = 0]
    /\ failed' = [failed EXCEPT ![i] = 0]
    /\ skipped' = [skipped EXCEPT ![i] = 0]
    /\ last_committable' = [last_committable EXCEPT ![i] = EmptyMap]
    /\ pc' = [pc EXCEPT ![i] = "getmany"]
    /\ UNCHANGED <<recipients_txt, number, returned, flow, max_messages, recs, idx, sent, exc, response, chat_ids,
                   session, value, call, reply, group_offsets>>

\* The batches getmany() may return: at most MaxBatch records, each partition's
\* list in ascending offset order, the partitions in any order.
Slots == UNION {{<<p, o>> : o \in PartitionOffsets(p)} : p \in Partitions}
Batches == {S \in SUBSET Slots : Cardinality(S) <= MaxBatch}
PartitionsOf(S) == {r[1] : r \in S}
Orders(S) ==
    {o \in [1..Cardinality(PartitionsOf(S)) -> PartitionsOf(S)] :
        \A a, b \in DOMAIN o : a # b => o[a] # o[b]}

RECURSIVE Ascending(_)
Ascending(T) ==
    IF T = {} THEN <<>>
    ELSE LET m == CHOOSE x \in T : \A y \in T : x <= y
         IN  <<m>> \o Ascending(T \ {m})

\* main.py lines 386-389: for tp, lst in batch.items(): for r in lst: recs.append((tp, r))
RECURSIVE Flatten(_, _)
Flatten(S, order) ==
    IF order = <<>> THEN <<>>
    ELSE LET tp == Head(order)
             lst == Ascending({r[2] : r \in {x \in S : x[1] = tp}})
         IN  [k \in 1..Len(lst) |-> [tp |-> tp, offset |-> lst[k]]]
                 \o Flatten(S, Tail(order))

\* KeyLessEq with the offset as the whole key.
KeyLessEq_offset(a, b) == a.offset <= b.offset

\* main.py line 390: the sort key (topic, partition, offset), the topic being fixed.
KeyLessEq(a, b) == a.tp < b.tp \/ (a.tp = b.tp /\ a.offset <= b.offset)

\* list.sort: a stable sort by the key.
RECURSIVE InsertSorted(_, _)
InsertSorted(r, s) ==
    IF s = <<>> THEN <<r>>
    ELSE IF KeyLessEq(s[Len(s)], r)
         THEN Append(s, r)
         ELSE Append(InsertSorted(r, SubSeq(s, 1, Len(s) - 1)), s[Len(s)])
RECURSIVE SortRecs(_)
SortRecs(s) ==
    IF s = <<>> THEN <<>>
    ELSE InsertSorted(s[Len(s)], SortRecs(SubSeq(s, 1, Len(s) - 1)))

\* main.py lines 385-390: getmany() returned; the batch is flattened and sorted.
Fetch(i, S, order) ==
    /\ pc[i] = "getmany"
    /\ consumer' = [consumer EXCEPT ![i].fetches = @ + 1, ![i].batch = order]
    /\ recs' = [recs EXCEPT ![i] = SortRecs(Flatten(S, order))]
    /\ idx' = [idx EXCEPT ![i] = 0]
    /\ pc' = [pc EXCEPT ![i] = "loop"]
    /\ UNCHANGED <<recipients_txt, number, returned, flow, max_messages, results, processed, sent, failed, skipped,
                   last_committable, exc, response, chat_ids, session, value, call,
                   reply, group_offsets>>

\* main.py lines 465-468: an exception other than HTTPException becomes
\* HTTPException(500); "finally" awaits consumer.stop() before it leaves.
Abort(i, detail) ==
    /\ exc' = [exc EXCEPT ![i] = [code |-> 500, detail |-> detail]]
    /\ pc' = [pc EXCEPT ![i] = "stop"]

\* main.py line 385: getmany() raises.
FetchFails(i) ==
    /\ pc[i] = "getmany"
    /\ consumer' = [consumer EXCEPT ![i].fetches = @ + 1]
    /\ Abort(i, "getmany")
    /\ UNCHANGED <<recipients_txt, number, returned, flow, max_messages, locals, response, chat_ids, session, value,
                   call, reply, group_offsets>>

\* CapReached with the comparison off by one.
CapReached_late(i) ==
    /\ max_messages[i] # NoInt
    /\ (processed[i] + failed[i] + skipped[i]) > IntOf(max_messages[i])

\* main.py line 393: the max_messages cap.
CapReached(i) ==
    /\ max_messages[i] # NoInt
    /\ (processed[i] + failed[i] + skipped[i]) >= IntOf(max_messages[i])

\* Advance without the test for contiguity.
Advance_always(lc, tp, offset) ==
    [p \in DOMAIN lc \cup {tp} |-> IF p = tp THEN offset + 1 ELSE lc[p]]

\* Advance with the record's own offset as the frontier.
Advance_last(lc, tp, offset) ==
    IF tp \notin DOMAIN lc \/ offset = lc[tp]
    THEN [p \in DOMAIN lc \cup {tp} |-> IF p = tp THEN offset ELSE lc[p]]
    ELSE lc

\* Advance with one frontier for the whole batch: a record moves the frontier
\* of its partition when its offset is the frontier of any partition.
Advance_batchwide(lc, tp, offset) ==
    IF DOMAIN lc = {} \/ (\E q \in DOMAIN lc : offset = lc[q])
    THEN [p \in DOMAIN lc \cup {tp} |-> IF p = tp THEN offset + 1 ELSE lc[p]]
    ELSE lc

\* Advance with the frontier moved by any record at or beyond it.
Advance_beyond(lc, tp, offset) ==
    IF tp \notin DOMAIN lc \/ offset >= lc[tp]
    THEN [p \in DOMAIN lc \cup {tp} |-> IF p = tp THEN offset + 1 ELSE lc[p]]
    ELSE lc

\* main.py lines 401-403 (and 412-414, 423-425, 432-434, 442-444, 457-459):
\* the frontier after a record of tp at offset that may advance it.
Advance(lc, tp, offset) ==
    IF tp \notin DOMAIN lc \/ offset = lc[tp]
    THEN [p \in DOMAIN lc \cup {tp} |-> IF p = tp THEN offset + 1 ELSE lc[p]]
    ELSE lc

\* main.py lines 396-445: the outcome of the checks made before the send:
\* a skip reason, "raise" (an exception no handler of the loop body catches),
\* or "send".
Classify(raw) ==
    IF raw.kind = "null" THEN "null message value"
    ELSE IF raw.kind = "undecodable" THEN "JSON parse error"
    ELSE IF ~ModelValidates(raw.d)
         THEN IF ValidationHandlerRaises(raw.d) THEN "raise" ELSE "validation error"
    ELSE IF Strip(raw.d.summary.v) = <<>> THEN "empty summary"
    ELSE IF number_to_chat_id(raw.d.number.v) = <<>> THEN "invalid number"
    ELSE "send"

\* main.py lines 392-396: the loop takes the next record and reads its value.
Take(i, raw) ==
    /\ pc[i] = "loop"
    /\ idx[i] < Len(recs[i])
    /\ ~CapReached(i)
    /\ idx' = [idx EXCEPT ![i] = @ + 1]
    /\ value' = [value EXCEPT ![i] = raw]
    /\ pc' = [pc EXCEPT ![i] = "record"]
    /\ UNCHANGED <<recipients_txt, number, returned, flow, max_messages, consumer, recs, results, processed, sent, failed,
                   skipped, last_committable, exc, response, chat_ids, session, call,
                   reply, group_offsets>>

\* Skip with the frontier left as it is.
Skip_frozen(i, record, reason) ==
    /\ results' = [results EXCEPT ![i] =
                      Append(@, [status |-> "skipped", error |-> reason])]
    /\ skipped' = [skipped EXCEPT ![i] = @ + 1]
    /\ pc' = [pc EXCEPT ![i] = "loop"]
    /\ UNCHANGED <<processed, failed, exc, call, last_committable>>

\* Skip with last_committable one dictionary of the module, the same for
\* every invocation.
Skip_shared(i, record, reason) ==
    /\ results' = [results EXCEPT ![i] =
                      Append(@, [status |-> "skipped", error |-> reason])]
    /\ skipped' = [skipped EXCEPT ![i] = @ + 1]
    /\ last_committable' =
           [j \in Invocations |-> Advance(last_committable[j], record.tp, record.offset)]
    /\ pc' = [pc EXCEPT ![i] = "loop"]
    /\ UNCHANGED <<processed, failed, exc, call>>

\* One Skipped entry: results.append, skipped += 1, the frontier, continue.
Skip(i, record, reason) ==
    /\ results' = [results EXCEPT ![i] =
                      Append(@, [status |-> "skipped", error |-> reason])]
    /\ skipped' = [skipped EXCEPT ![i] = @ + 1]
    /\ last_committable' = [last_committable EXCEPT ![i] =
                               Advance(@, record.tp, record.offset)]
    /\ pc' = [pc EXCEPT ![i] = "loop"]
    /\ UNCHANGED <<processed, failed, exc, call>>

\* Handle with send_text_message started and not awaited: the loop goes on
\* while the call runs.
Handle_detached(i) ==
    /\ pc[i] = "record"
    /\ LET record == recs[i][idx[i]]
           raw == value[i]
           outcome == Classify(raw)
       IN  IF outcome = "send"
           THEN /\ EnterSendText(i, number_to_chat_id(raw.d.number.v)[1], NoneStr)
                /\ pc' = [pc EXCEPT ![i] = "loop"]
                /\ UNCHANGED <<results, processed, failed, skipped, last_committable,
                               exc>>
           ELSE IF outcome = "raise"
                THEN /\ Abort(i, "loop body")
                     /\ UNCHANGED <<results, processed, failed, skipped,
                                    last_committable, call>>
                ELSE Skip(i, record, outcome)
    /\ value' = [value EXCEPT ![i] = NoValue]
    /\ UNCHANGED <<recipients_txt, number, returned, flow, max_messages, consumer, recs, idx, sent, response, chat_ids,
                   session, reply, group_offsets>>

\* main.py lines 397-448: the loop body up to a skip, an exception, or the
\* await of send_text_message.
Handle(i) ==
    /\ pc[i] = "record"
    /\ LET record == recs[i][idx[i]]
           raw == value[i]
           outcome == Classify(raw)
       IN  IF outcome = "send"
           THEN /\ EnterSendText(i, number_to_chat_id(raw.d.number.v)[1], NoneStr)
                /\ pc' = [pc EXCEPT ![i] = "status"]
                /\ UNCHANGED <<results, processed, failed, skipped, last_committable,
                               exc>>
           ELSE IF outcome = "raise"
                THEN /\ Abort(i, "loop body")
                     /\ UNCHANGED <<results, processed, failed, skipped,
                                    last_committable, call>>
                ELSE Skip(i, record, outcome)
    /\ value' = [value EXCEPT ![i] = NoValue]
    /\ UNCHANGED <<recipients_txt, number, returned, flow, max_messages, consumer, recs, idx, sent, response, chat_ids,
                   session, reply, group_offsets>>

\* ConsumeResume with the frontier advanced after a failed send too.
ConsumeResume_advancing(i, r) ==
    LET record == recs[i][idx[i]]
    IN  /\ IF r.cat = "ok"
           THEN /\ results' = [results EXCEPT ![i] =
                                  Append(@, [status |-> "success", error |-> "None"])]
                /\ processed' = [processed EXCEPT ![i] = @ + 1]
                /\ UNCHANGED failed
           ELSE /\ results' = [results EXCEPT ![i] =
                                  Append(@, [status |-> "error", error |-> "str(e)"])]
                /\ failed' = [failed EXCEPT ![i] = @ + 1]
                /\ UNCHANGED processed
        /\ last_committable' = [last_committable EXCEPT ![i] =
                                   Advance(@, record.tp, record.offset)]
        /\ call' = [call EXCEPT ![i] = NoCall]
        /\ pc' = [pc EXCEPT ![i] = "loop"]
        /\ UNCHANGED <<recs, idx, sent, skipped, exc, response, chat_ids>>

\* ConsumeResume with a failed send left to the handler of the whole batch.
ConsumeResume_raising(i, r) ==
    LET record == recs[i][idx[i]]
    IN  /\ IF r.cat = "ok"
           THEN /\ results' = [results EXCEPT ![i] =
                                  Append(@, [status |-> "success", error |-> "None"])]
                /\ processed' = [processed EXCEPT ![i] = @ + 1]
                /\ last_committable' = [last_committable EXCEPT ![i] =
                                           Advance(@, record.tp, record.offset)]
                /\ pc' = [pc EXCEPT ![i] = "loop"]
                /\ UNCHANGED exc
           ELSE /\ Abort(i, "send")
                /\ UNCHANGED <<results, processed, last_committable>>
        /\ call' = [call EXCEPT ![i] = NoCall]
        /\ UNCHANGED <<recs, idx, sent, failed, skipped, response, chat_ids>>

\* main.py lines 449-459: send_text_message returned or raised.
ConsumeResume(i, r) ==
    LET record == recs[i][idx[i]]
    IN  /\ IF r.cat = "ok"
           THEN /\ results' = [results EXCEPT ![i] =
                                  Append(@, [status |-> "success", error |-> "None"])]
                /\ processed' = [processed EXCEPT ![i] = @ + 1]
                /\ last_committable' = [last_committable EXCEPT ![i] =
                                           Advance(@, record.tp, record.offset)]
                /\ UNCHANGED failed
           ELSE /\ results' = [results EXCEPT ![i] =
                                  Append(@, [status |-> "error", error |-> "str(e)"])]
                /\ failed' = [failed EXCEPT ![i] = @ + 1]
                /\ UNCHANGED <<processed, last_committable>>
        /\ call' = [call EXCEPT ![i] = NoCall]
        /\ pc' = [pc EXCEPT ![i] = "loop"]
        /\ UNCHANGED <<recs, idx, sent, skipped, exc, response, chat_ids>>

\* EndLoop with commit() called whether the frontier is empty or not.
EndLoop_committing(i) ==
    /\ pc[i] = "loop"
    /\ (idx[i] = Len(recs[i]) \/ CapReached(i))
    /\ consumer' = [consumer EXCEPT ![i].commits = @ + 1]
    /\ pc' = [pc EXCEPT ![i] = "commit"]
    /\ UNCHANGED <<recipients_txt, number, returned, flow, max_messages, locals, exc, response, chat_ids,
                   session, value, call, reply, group_offsets>>

\* main.py lines 392-394 and 461-468: the loop ends (no record left, or the cap);
\* a non-empty frontier is committed, else "finally" awaits consumer.stop().
EndLoop(i) ==
    /\ pc[i] = "loop"
    /\ (idx[i] = Len(recs[i]) \/ CapReached(i))
    /\ IF last_committable[i] # EmptyMap
       THEN /\ consumer' = [consumer EXCEPT ![i].commits = @ + 1]
            /\ pc' = [pc EXCEPT ![i] = "commit"]
       ELSE /\ pc' = [pc EXCEPT ![i] = "stop"]
            /\ UNCHANGED consumer
    /\ UNCHANGED <<recipients_txt, number, returned, flow, max_messages, locals, exc, response, chat_ids, session, value,
                   call, reply, group_offsets>>

\* CommitOk committing the consumer's position, which lies past every fetched
\* record, instead of the frontier.
CommitOk_position(i) ==
    /\ pc[i] = "commit"
    /\ group_offsets' =
           LET fetched == {recs[i][k].tp : k \in DOMAIN recs[i]}
           IN  [p \in DOMAIN group_offsets \cup fetched |->
                   IF p \in fetched
                   THEN 1 + CHOOSE o \in {recs[i][k].offset : k \in DOMAIN recs[i]} :
                                /\ [tp |-> p, offset |-> o] \in {recs[i][k] : k \in DOMAIN recs[i]}
                                /\ \A k \in DOMAIN recs[i] :
                                       recs[i][k].tp = p => recs[i][k].offset <= o
                   ELSE group_offsets[p]]
    /\ pc' = [pc EXCEPT ![i] = "stop"]
    /\ UNCHANGED <<recipients_txt, number, returned, flow, max_messages, consumer, locals, exc, response, chat_ids,
                   session, value, call, reply>>

\* main.py line 462: commit(offsets=last_committable) returned.
CommitOk(i) ==
    /\ pc[i] = "commit"
    /\ group_offsets' =
           [p \in DOMAIN group_offsets \cup DOMAIN last_committable[i] |->
               IF p \in DOMAIN last_committable[i]
               THEN last_committable[i][p]
               ELSE group_offsets[p]]
    /\ pc' = [pc EXCEPT ![i] = "stop"]
    /\ UNCHANGED <<recipients_txt, number, returned, flow, max_messages, consumer, locals, exc, response, chat_ids,
                   session, value, call, reply>>

\* CommitFails with the commit called again after it raised.
CommitFails_retry(i) ==
    /\ pc[i] = "commit"
    /\ consumer' = [consumer EXCEPT ![i].commits = @ + 1]
    /\ UNCHANGED <<recipients_txt, number, returned, flow, pc, max_messages, locals, exc, response, chat_ids, session,
                   value, call, reply, group_offsets>>

\* CommitFails with the exception of commit() swallowed.
CommitFails_swallowed(i) ==
    /\ pc[i] = "commit"
    /\ pc' = [pc EXCEPT ![i] = "stop"]
    /\ UNCHANGED <<recipients_txt, number, returned, flow, max_messages, consumer, locals, exc, response, chat_ids,
                   session, value, call, reply, group_offsets>>

\* main.py line 462: commit() raises; the broker keeps the offsets it had.
CommitFails(i) ==
    /\ pc[i] = "commit"
    /\ Abort(i, "commit")
    /\ UNCHANGED <<recipients_txt, number, returned, flow, max_messages, consumer, locals, response, chat_ids, session,
                   value, call, reply, group_offsets>>

\* main.py lines 468-470: stop() returned (it is taken not to raise); the handler
\* returns the aggregate, or the HTTPException(500) in flight leaves it.
StopOk(i) ==
    /\ pc[i] = "stop"
    /\ consumer' = [consumer EXCEPT ![i].state = "stopped", ![i].stops = @ + 1]
    /\ response' = [response EXCEPT ![i] =
                       IF exc[i] = NoExc
                       THEN [kind |-> "return", code |-> 200, detail |-> "success"]
                       ELSE [kind |-> "raise", code |-> exc[i].code,
                             detail |-> exc[i].detail]]
    /\ pc' = [pc EXCEPT ![i] = "done"]
    /\ UNCHANGED <<recipients_txt, number, returned, flow, max_messages, locals, exc, chat_ids, session, value, call,
                   reply, group_offsets>>

(***************************************************************************)
(* send_bulk.                                                              *)
(***************************************************************************)
\* ParseLines with comment lines read as numbers.
RECURSIVE ParseLines_comments(_, _)
ParseLines_comments(lines, result) ==
    IF lines = <<>> THEN result
    ELSE LET line == Strip(Head(lines))
             digits == DigitsOf(line)
             chat_id == digits \o Suffix
             seen == {result[k] : k \in DOMAIN result}
         IN  IF line = <<>> \/ Len(digits) < MinDigits \/ chat_id \in seen
             THEN ParseLines_comments(Tail(lines), result)
             ELSE ParseLines_comments(Tail(lines), Append(result, chat_id))

\* ParseLines with no test of seen.
RECURSIVE ParseLines_repeating(_, _)
ParseLines_repeating(lines, result) ==
    IF lines = <<>> THEN result
    ELSE LET line == Strip(Head(lines))
             digits == DigitsOf(line)
             chat_id == digits \o Suffix
         IN  IF line = <<>> \/ line[1] = "#"
             THEN ParseLines_repeating(Tail(lines), result)
             ELSE IF Len(digits) < MinDigits
                  THEN ParseLines_repeating(Tail(lines), result)
                  ELSE ParseLines_repeating(Tail(lines), Append(result, chat_id))

\* recipients.py lines 31-46: the loop over the lines, with result as the
\* accumulator (seen holds the same chat ids as result).
RECURSIVE ParseLines(_, _)
ParseLines(lines, result) ==
    IF lines = <<>> THEN result
    ELSE LET line == Strip(Head(lines))
             digits == DigitsOf(line)
             chat_id == digits \o Suffix
             seen == {result[k] : k \in DOMAIN result}
         IN  IF line = <<>> \/ line[1] = "#"
             THEN ParseLines(Tail(lines), result)
             ELSE IF Len(digits) < MinDigits
                  THEN ParseLines(Tail(lines), result)
                  ELSE IF chat_id \notin seen
                       THEN ParseLines(Tail(lines), Append(result, chat_id))
                       ELSE ParseLines(Tail(lines), result)

\* recipients.load_recipients
load_recipients(file) ==
    IF ~file.exists THEN <<>> ELSE ParseLines(file.lines, <<>>)

\* main.py lines 320-332: the recipients are loaded; with none the handler
\* raises HTTPException(400), else the first send is awaited.
BulkBegin(i, sess) ==
    /\ flow[i] = "bulk"
    /\ pc[i] = "idle"
    /\ session' = [session EXCEPT ![i] = sess]
    /\ LET ids == load_recipients(recipients_txt)
       IN  /\ chat_ids' = [chat_ids EXCEPT ![i] = ids]
           /\ IF ids = <<>>
              THEN /\ response' = [response EXCEPT ![i] =
                                      [kind |-> "raise", code |-> 400,
                                       detail |-> "no recipients"]]
                   /\ pc' = [pc EXCEPT ![i] = "done"]
                   /\ UNCHANGED <<results, sent, failed, idx, call>>
              ELSE /\ results' = [results EXCEPT ![i] = <<>>]
                   /\ sent' = [sent EXCEPT ![i] = 0]
                   /\ failed' = [failed EXCEPT ![i] = 0]
                   /\ idx' = [idx EXCEPT ![i] = 1]
                   /\ EnterSendText(i, ids[1], sess)
                   /\ pc' = [pc EXCEPT ![i] = "status"]
                   /\ UNCHANGED response
    /\ UNCHANGED <<recipients_txt, number, returned, flow, max_messages, consumer, recs, processed, skipped,
                   last_committable, exc, value, reply, group_offsets>>

\* BulkResume with the loop left at the first failure.
BulkResume_stopping(i, r) ==
    /\ IF r.cat = "ok"
       THEN /\ results' = [results EXCEPT ![i] =
                              Append(@, [chat_id |-> chat_ids[i][idx[i]],
                                         status |-> "success", error |-> "None"])]
            /\ sent' = [sent EXCEPT ![i] = @ + 1]
            /\ UNCHANGED failed
       ELSE /\ results' = [results EXCEPT ![i] =
                              Append(@, [chat_id |-> chat_ids[i][idx[i]],
                                         status |-> "error", error |-> "str(e)"])]
            /\ failed' = [failed EXCEPT ![i] = @ + 1]
            /\ UNCHANGED sent
    /\ IF idx[i] < Len(chat_ids[i]) /\ r.cat = "ok"
       THEN /\ idx' = [idx EXCEPT ![i] = @ + 1]
            /\ EnterSendText(i, chat_ids[i][idx[i] + 1], session[i])
            /\ pc' = [pc EXCEPT ![i] = "status"]
            /\ UNCHANGED response
       ELSE /\ response' = [response EXCEPT ![i] =
                               [kind |-> "return", code |-> 200, detail |-> "success"]]
            /\ call' = [call EXCEPT ![i] = NoCall]
            /\ pc' = [pc EXCEPT ![i] = "done"]
            /\ UNCHANGED idx
    /\ UNCHANGED <<recs, processed, skipped, last_committable, exc, chat_ids>>

\* main.py lines 330-342: send_text_message returned or raised; the next
\* recipient's send is awaited, or the handler returns.
BulkResume(i, r) ==
    /\ IF r.cat = "ok"
       THEN /\ results' = [results EXCEPT ![i] =
                              Append(@, [chat_id |-> chat_ids[i][idx[i]],
                                         status |-> "success", error |-> "None"])]
            /\ sent' = [sent EXCEPT ![i] = @ + 1]
            /\ UNCHANGED failed
       ELSE /\ results' = [results EXCEPT ![i] =
                              Append(@, [chat_id |-> chat_ids[i][idx[i]],
                                         status |-> "error", error |-> "str(e)"])]
            /\ failed' = [failed EXCEPT ![i] = @ + 1]
            /\ UNCHANGED sent
    /\ IF idx[i] < Len(chat_ids[i])
       THEN /\ idx' = [idx EXCEPT ![i] = @ + 1]
            /\ EnterSendText(i, chat_ids[i][idx[i] + 1], session[i])
            /\ pc' = [pc EXCEPT ![i] = "status"]
            /\ UNCHANGED response
       ELSE /\ response' = [response EXCEPT ![i] =
                               [kind |-> "return", code |-> 200, detail |-> "success"]]
            /\ call' = [call EXCEPT ![i] = NoCall]
            /\ pc' = [pc EXCEPT ![i] = "done"]
            /\ UNCHANGED idx
    /\ UNCHANGED <<recs, processed, skipped, last_committable, exc, chat_ids>>

(***************************************************************************)
(* send_message.                                                           *)
(***************************************************************************)
ChatIdInputs == {PlainNumber \o Suffix, OtherNumber \o Suffix}

\* main.py lines 253-258: send_text_message is awaited.
SingleBegin(i, chat_id, sess) ==
    /\ flow[i] = "single"
    /\ pc[i] = "idle"
    /\ session' = [session EXCEPT ![i] = sess]
    /\ EnterSendText(i, chat_id, sess)
    /\ pc' = [pc EXCEPT ![i] = "status"]
    /\ UNCHANGED <<recipients_txt, number, returned, flow, max_messages, consumer, locals, exc, response, chat_ids, value,
                   reply, group_offsets>>

\* main.py lines 259-290: the response, or the HTTPException: an
\* HTTPStatusError keeps its response's status code, a RequestError gives 503.
SingleResume(i, r) ==
    /\ response' = [response EXCEPT ![i] =
           IF r.cat = "ok"
           THEN [kind |-> "return", code |-> 200, detail |-> "success"]
           ELSE IF r.cat \in {"RequestError", "NetworkError"}
                THEN [kind |-> "raise", code |-> 503, detail |-> r.cat]
                ELSE [kind |-> "raise", code |-> r.code, detail |-> r.cat]]
    /\ call' = [call EXCEPT ![i] = NoCall]
    /\ pc' = [pc EXCEPT ![i] = "done"]
    /\ UNCHANGED <<locals, exc, chat_ids>>

(***************************************************************************)
(* send_text_message and the gateway.                                      *)
(***************************************************************************)
\* The gateway answers the request in flight.
GatewayAnswers(i, rep) ==
    /\ pc[i] \in {"status", "post"}
    /\ reply[i] = NoReply
    /\ rep \in (IF pc[i] = "status" THEN StatusReplies ELSE PostReplies)
    /\ reply' = [reply EXCEPT ![i] = rep]
    /\ UNCHANGED <<recipients_txt, number, returned, flow, pc, max_messages, consumer, locals, exc, response, chat_ids,
                   session, value, call, group_offsets>>

\* The caller of send_text_message goes on with what it returned or raised.
Resume(i, r) ==
    CASE flow[i] = "consume" -> ConsumeResume(i, r)
      [] flow[i] = "bulk" -> BulkResume(i, r)
      [] OTHER -> SingleResume(i, r)

\* waha_client.py lines 69-122: the status query is over; the send request is
\* issued if the session is ready, else send_text_message raises.
ReceiveStatus(i) ==
    /\ pc[i] = "status"
    /\ reply[i] # NoReply
    /\ LET r == IF reply[i].t = "status"
                THEN ReadyDecision(reply[i].status)
                ELSE StatusFailure(reply[i].failure)
       IN  IF r = Ok
           THEN /\ call' = [call EXCEPT ![i].posts = <<call[i].session_name>>]
                /\ pc' = [pc EXCEPT ![i] = "post"]
                /\ UNCHANGED <<locals, exc, response, chat_ids>>
           ELSE Resume(i, r)
    /\ reply' = [reply EXCEPT ![i] = NoReply]
    /\ UNCHANGED <<recipients_txt, number, returned, flow, max_messages, consumer, session, value, group_offsets>>

\* ReceivePost with the send request issued a second time after a failure.
ReceivePost_retrying(i) ==
    /\ pc[i] = "post"
    /\ reply[i] # NoReply
    /\ IF Categorize(reply[i].post) # Ok /\ Len(call[i].posts) < 2
       THEN /\ call' = [call EXCEPT ![i].posts = Append(@, call[i].session_name)]
            /\ UNCHANGED <<pc, locals, exc, response, chat_ids>>
       ELSE Resume(i, Categorize(reply[i].post))
    /\ reply' = [reply EXCEPT ![i] = NoReply]
    /\ UNCHANGED <<recipients_txt, number, returned, flow, max_messages, consumer, session, value,
                   group_offsets>>

\* waha_client.py lines 122-209: the send request is over.
ReceivePost(i) ==
    /\ pc[i] = "post"
    /\ reply[i] # NoReply
    /\ Resume(i, Categorize(reply[i].post))
    /\ reply' = [reply EXCEPT ![i] = NoReply]
    /\ UNCHANGED <<recipients_txt, number, returned, flow, max_messages, consumer, session, value, group_offsets>>

(***************************************************************************)
(* Specifications.                                                         *)
(***************************************************************************)
\* The gateway answers the request in flight with any answer it may give.
Gateway(i) ==
    /\ pc[i] \in {"status", "post"}
    /\ reply[i] = NoReply
    /\ \E rep \in StatusReplies \cup PostReplies : GatewayAnswers(i, rep)

SendText(i) ==
    \/ Gateway(i)
    \/ ReceiveStatus(i)
    \/ ReceivePost(i)

\* A request with any max_messages.
ConsumeRequest(i) ==
    /\ pc[i] = "idle"
    /\ \E mm \in MaxMessagesInputs : ConsumeBegin(i, mm)

\* getmany() returns any batch, its partitions in any order.
GetMany(i) ==
    /\ pc[i] = "getmany"
    /\ \E S \in Batches : \E order \in Orders(S) : Fetch(i, S, order)

\* The next record of the loop, with any value.
NextRecord(i) ==
    /\ pc[i] = "loop"
    /\ \E raw \in RecordValues : Take(i, raw)

Consume(i) ==
    \/ ConsumeRequest(i)
    \/ StartFails(i)
    \/ StartOk(i)
    \/ GetMany(i)
    \/ FetchFails(i)
    \/ NextRecord(i)
    \/ Handle(i)
    \/ EndLoop(i)
    \/ CommitOk(i)
    \/ CommitFails(i)
    \/ StopOk(i)

Next == \E i \in Invocations : Consume(i) \/ SendText(i)

Spec == Init /\ [][Next]_vars

\* One request to POST /consume-notifications or to POST /send-bulk.
InitBatch ==
    /\ flow \in {[i \in Invocations |-> IF i = 1 THEN f ELSE "off"] :
                    f \in {"consume", "bulk"}}
    /\ InitCommon
    /\ recipients_txt \in (IF flow[1] = "bulk" THEN RecipientFiles ELSE {NoFile})
    /\ number = <<>>

Bulk(i) ==
    /\ flow[i] = "bulk"
    /\ pc[i] = "idle"
    /\ \E sess \in SessionInputs : BulkBegin(i, sess)

NextBatch == \E i \in Invocations : Consume(i) \/ Bulk(i) \/ SendText(i)

SpecBatch == InitBatch /\ [][NextBatch]_vars

\* One request to POST /send-bulk.
InitBulk ==
    /\ flow = [i \in Invocations |-> IF i = 1 THEN "bulk" ELSE "off"]
    /\ InitCommon
    /\ recipients_txt \in RecipientFiles
    /\ number = <<>>

NextBulk == \E i \in Invocations : Bulk(i) \/ SendText(i)

SpecBulk == InitBulk /\ [][NextBulk]_vars

\* One request to POST /send-message.
InitSend ==
    /\ flow = [i \in Invocations |-> IF i = 1 THEN "single" ELSE "off"]
    /\ InitCommon
    /\ recipients_txt = NoFile
    /\ number = <<>>

Single(i) ==
    /\ pc[i] = "idle"
    /\ \E chat_id \in ChatIdInputs : \E sess \in SessionInputs :
           SingleBegin(i, chat_id, sess)

NextSend == \E i \in Invocations : Single(i) \/ SendText(i)

SpecSend == InitSend /\ [][NextSend]_vars

\* One request to any of the three endpoints.
InitAll ==
    /\ flow \in {[i \in Invocations |-> IF i = 1 THEN f ELSE "off"] :
                    f \in {"consume", "bulk", "single"}}
    /\ InitCommon
    /\ recipients_txt \in (IF flow[1] = "bulk" THEN RecipientFiles ELSE {NoFile})
    /\ number = <<>>

NextAll == \E i \in Invocations : Consume(i) \/ Bulk(i) \/ Single(i) \/ SendText(i)

SpecAll == InitAll /\ [][NextAll]_vars

\* Two requests to POST /consume-notifications at the same time.  Each fetches
\* at most MaxPairBatch of three records; a value is null or a valid payload;
\* the gateway reports the session connected or cannot be reached, and accepts
\* what is sent.
PairSlots == {<<0, 5>>, <<0, 6>>, <<1, 5>>}
PairBatches == {S \in SUBSET PairSlots : Cardinality(S) <= MaxPairBatch}
PairValues ==
    {[kind |-> "null", d |-> NonObject],
     [kind |-> "json",
      d |-> [obj |-> TRUE, number |-> FStr(GoodNumber), summary |-> FStr(SomeText),
             company_name |-> FAbsent]]}
PairReplies ==
    {[t |-> "status", status |-> [status |-> FStr(CONNECTED), ready |-> TRUE, me |-> TRUE],
      failure |-> "none", post |-> NoPost],
     [t |-> "status_failure", status |-> NoStatus, failure |-> "network", post |-> NoPost],
     [t |-> "post", status |-> NoStatus, failure |-> "none",
      post |-> [t |-> "response", code |-> 200, body |-> EmptyBody]]}

InitPair ==
    /\ flow = [i \in Invocations |-> "consume"]
    /\ InitCommon
    /\ recipients_txt = NoFile
    /\ number = <<>>

PairRequest(i) ==
    /\ pc[i] = "idle"
    /\ ConsumeBegin(i, NoInt)

PairGetMany(i) ==
    /\ pc[i] = "getmany"
    /\ \E S \in PairBatches : \E order \in Orders(S) : Fetch(i, S, order)

PairNextRecord(i) ==
    /\ pc[i] = "loop"
    /\ \E raw \in PairValues : Take(i, raw)

PairGateway(i) ==
    /\ pc[i] \in {"status", "post"}
    /\ reply[i] = NoReply
    /\ \E rep \in PairReplies : GatewayAnswers(i, rep)

PairConsume(i) ==
    \/ PairRequest(i)
    \/ StartFails(i)
    \/ StartOk(i)
    \/ PairGetMany(i)
    \/ FetchFails(i)
    \/ PairNextRecord(i)
    \/ Handle(i)
    \/ EndLoop(i)
    \/ CommitOk(i)
    \/ CommitFails(i)
    \/ StopOk(i)
    \/ PairGateway(i)
    \/ ReceiveStatus(i)
    \/ ReceivePost(i)

NextPair == \E i \in Invocations : PairConsume(i)

SpecPair == InitPair /\ [][NextPair]_vars

\* The strings number_to_chat_id is called with: every string of at most
\* MaxNumberLen characters, each one of two digits or one character that is none.
NumberChars == {"1", "2", "-"}
NumberInputs == UNION {[1..n -> NumberChars] : n \in 0..MaxNumberLen}

\* One call of number_to_chat_id.
InitNormalize ==
    /\ flow = [i \in Invocations |-> "off"]
    /\ InitCommon
    /\ recipients_txt = NoFile
    /\ number \in NumberInputs

\* recipients.py lines 9-12: the call returns.
Normalize ==
    /\ returned = {}
    /\ returned' = {number_to_chat_id(number)}
    /\ UNCHANGED <<recipients_txt, number, flow, pc, max_messages, consumer, locals, exc, response,
                   chat_ids, session, value, call, reply, group_offsets>>

NextNormalize == Normalize

SpecNormalize == InitNormalize /\ [][NextNormalize]_vars

\* One call of number_to_chat_id, and a second one with what the first returned.
NormalizeReturned ==
    /\ returned # {}
    /\ returned # {<<>>}
    /\ returned # {<<number>>}
    /\ \E r \in returned :
           /\ number' = r[1]
           /\ returned' = {number_to_chat_id(r[1])}
    /\ UNCHANGED <<recipients_txt, flow, pc, max_messages, consumer, locals, exc, response,
                   chat_ids, session, value, call, reply, group_offsets>>

NextTwice == Normalize \/ NormalizeReturned

SpecTwice == InitNormalize /\ [][NextTwice]_vars

\* The lines load_recipients is called with on its own: those of RecipientLines
\* but the empty one, a comment after leading whitespace and a number between
\* whitespace.
IndentedComment == <<" ">> \o CommentLine
PaddedNumber == <<" ">> \o OtherNumber \o <<" ">>
LoadLines == (RecipientLines \ {EmptyText}) \cup {IndentedComment, PaddedNumber}
LoadFiles == {NoFile} \cup [exists : {TRUE}, lines : SeqsUpTo(LoadLines, MaxLoadLines)]

\* One call of load_recipients.
InitLoad ==
    /\ flow = [i \in Invocations |-> "off"]
    /\ InitCommon
    /\ recipients_txt \in LoadFiles
    /\ number = <<>>

\* recipients.py lines 27-46: the call returns.
Load ==
    /\ returned = {}
    /\ returned' = {load_recipients(recipients_txt)}
    /\ UNCHANGED <<recipients_txt, number, flow, pc, max_messages, consumer, locals, exc, response,
                   chat_ids, session, value, call, reply, group_offsets>>

NextLoad == Load

SpecLoad == InitLoad /\ [][NextLoad]_vars

(***************************************************************************)
(* Vocabulary of the properties.                                           *)
(***************************************************************************)
Consuming == {i \in Invocations : flow[i] = "consume"}
\* The step appends one entry to the result list of i.
Appends(i) == Len(results'[i]) = Len(results[i]) + 1
NewEntry(i) == results'[i][Len(results'[i])]
\* The record the loop body of i is handling.
Current(i) == recs[i][idx[i]]
Tracked(i, p) == p \in DOMAIN last_committable[i]
\* The handler of i has returned its aggregate.
Returned(i) == pc[i] = "done" /\ response[i].kind = "return"
\* The commit call of i has returned.
Committed(i) ==
    /\ consumer[i].commits = 1
    /\ pc[i] \in {"stop", "done"}
    /\ exc[i] = NoExc

(***************************************************************************)
(* C1.                                                                     *)
(***************************************************************************)
\* Three records of one partition at contiguous offsets, ended as one Success,
\* one Skipped (invalid number) and one Failed, and the handler has returned.
ThreeOutcomes(i) ==
    /\ i \in Consuming
    /\ Returned(i)
    /\ Len(recs[i]) = 3
    /\ Len(results[i]) = 3
    /\ recs[i][2].tp = recs[i][1].tp
    /\ recs[i][3].tp = recs[i][1].tp
    /\ recs[i][2].offset = recs[i][1].offset + 1
    /\ recs[i][3].offset = recs[i][2].offset + 1
    /\ {results[i][k] : k \in 1..3} =
           {[status |-> "success", error |-> "None"],
            [status |-> "skipped", error |-> "invalid number"],
            [status |-> "error", error |-> "str(e)"]}
FailedIndex(i) == CHOOSE k \in 1..3 : results[i][k].status = "error"

\* C1 as claimed: after every record outcome, Failed included, the frontier of
\* the record's partition is advanced to offset+1 whenever the offset equals
\* the frontier or the partition has none; so three contiguous records ending
\* Success, Skipped and Failed in any order commit the highest offset + 1.
C1_AdvanceAfterEveryOutcome ==
    /\ [][\A i \in Consuming :
            Appends(i) =>
                LET r == Current(i)
                IN  (~Tracked(i, r.tp) \/ last_committable[i][r.tp] = r.offset)
                        => /\ r.tp \in DOMAIN last_committable'[i]
                           /\ last_committable'[i][r.tp] = r.offset + 1]_vars
    /\ [](\A i \in Invocations :
            ThreeOutcomes(i) =>
                /\ recs[i][1].tp \in DOMAIN group_offsets
                /\ group_offsets[recs[i][1].tp] = recs[i][3].offset + 1)

\* C1, amended: after a Success or Skipped outcome the frontier of the
\* record's partition is advanced to offset+1 whenever the offset equals the
\* frontier or the partition has none; a Failed outcome leaves every frontier
\* as it was.  Three contiguous records ending Success, Skipped and Failed
\* commit the Failed record's offset, unless the Failed record is the first
\* of the three, and then the highest offset + 1.
C1_AdvanceAfterSuccessOrSkip ==
    /\ [][\A i \in Consuming :
            Appends(i) =>
                LET r == Current(i)
                IN  IF NewEntry(i).status = "error"
                    THEN last_committable'[i] = last_committable[i]
                    ELSE (~Tracked(i, r.tp) \/ last_committable[i][r.tp] = r.offset)
                            => /\ r.tp \in DOMAIN last_committable'[i]
                               /\ last_committable'[i][r.tp] = r.offset + 1]_vars
    /\ [](\A i \in Invocations :
            ThreeOutcomes(i) =>
                /\ recs[i][1].tp \in DOMAIN group_offsets
                /\ group_offsets[recs[i][1].tp] =
                       IF FailedIndex(i) = 1
                       THEN recs[i][3].offset + 1
                       ELSE recs[i][FailedIndex(i)].offset)

\* Offsets 5, 6, 7 ended Success, Failed, Skipped: 6 is committed.
C1_Witness ==
    /\ ThreeOutcomes(1)
    /\ recs[1][1] = [tp |-> 0, offset |-> 5]
    /\ results[1][2].status = "error"
    /\ group_offsets[0] = 6

(***************************************************************************)
(* C2.                                                                     *)
(***************************************************************************)
\* C2: the frontier of a partition changes only while a record of that
\* partition is handled, only to that record's offset + 1, and only from
\* that record's offset or from no frontier at all; so the offsets below the
\* frontier, down to the first one that set it, are a gap-free run of
\* examined records of the batch.
C2_StrictContiguity ==
    /\ [][\A i \in Consuming : \A p \in Partitions :
            (/\ p \in DOMAIN last_committable'[i]
             /\ (Tracked(i, p) => last_committable'[i][p] # last_committable[i][p]))
                => /\ pc[i] \in {"record", "status", "post"}
                   /\ Current(i).tp = p
                   /\ last_committable'[i][p] = Current(i).offset + 1
                   /\ Tracked(i, p) => last_committable[i][p] = Current(i).offset]_vars
    /\ [][\A i \in Consuming : DOMAIN last_committable[i] \subseteq DOMAIN last_committable'[i]]_vars
    /\ [](\A i \in Consuming : \A p \in DOMAIN last_committable[i] :
            \E first \in PartitionOffsets(p) :
                /\ first < last_committable[i][p]
                /\ \A o \in first..(last_committable[i][p] - 1) :
                       \E k \in 1..Len(results[i]) :
                           /\ recs[i][k] = [tp |-> p, offset |-> o]
                           /\ results[i][k].status \in {"success", "skipped"})

\* The frontier of partition 0 has gone from 5 to 8 over three records.
C2_Witness ==
    /\ 1 \in Consuming
    /\ Tracked(1, 0)
    /\ last_committable[1][0] = 8
    /\ Len(results[1]) = 3
    /\ recs[1][1] = [tp |-> 0, offset |-> 5]

(***************************************************************************)
(* C3.                                                                     *)
(***************************************************************************)
\* C3 as claimed: whatever the value of a record is, handling it ends in a
\* Skipped or Failed entry with the loop going on, or in the send; it never
\* ends the batch with an exception.
C3_RecordProblemsNeverAbort ==
    [][\A i \in Consuming :
          (pc[i] = "record" /\ pc'[i] # "record")
              => \/ pc'[i] = "status"
                 \/ /\ pc'[i] = "loop"
                    /\ Appends(i)
                    /\ NewEntry(i).status \in {"skipped", "error"}
                    /\ exc'[i] = NoExc]_vars

(***************************************************************************)
(* C4.                                                                     *)
(***************************************************************************)
\* C4 as claimed: on every path, a failed start() included, stop() has been
\* called exactly once when the handler is left, and once it was called
\* nothing else happens in the invocation.
C4_StopOnEveryPath ==
    \A i \in Consuming :
        /\ pc[i] = "done" => consumer[i].stops = 1
        /\ consumer[i].stops >= 1 => pc[i] = "done"

(***************************************************************************)
(* C5.                                                                     *)
(***************************************************************************)
\* C5: commit is called at most once, when the loop is over and every record
\* taken has its entry, before stop(), with the whole frontier as argument;
\* it is called once when the loop ends without an exception and the
\* frontier is not empty, and not at all when an exception ended the batch
\* before.
C5_CommitOnce ==
    /\ [][\A i \in Consuming :
            consumer'[i].commits # consumer[i].commits
                => /\ consumer[i].commits = 0
                   /\ consumer'[i].commits = 1
                   /\ pc[i] = "loop"
                   /\ Len(results[i]) = idx[i]
                   /\ consumer[i].stops = 0
                   /\ last_committable[i] # EmptyMap]_vars
    /\ [][\A i \in Consuming :
            group_offsets' # group_offsets /\ pc[i] = "commit"
                => group_offsets' = last_committable[i]]_vars
    /\ [](\A i \in Consuming :
            /\ consumer[i].commits <= 1
            /\ (Returned(i) /\ last_committable[i] # EmptyMap)
                   => consumer[i].commits = 1 /\ group_offsets = last_committable[i]
            /\ exc[i].detail \in {"getmany", "loop body"} => consumer[i].commits = 0
            /\ consumer[i].commits = 0 => group_offsets = EmptyMap)

\* Two partitions committed in the one call of a returned handler.
C5_Witness ==
    /\ 1 \in Consuming
    /\ Returned(1)
    /\ consumer[1].commits = 1
    /\ DOMAIN group_offsets = {0, 1}
    /\ Len(results[1]) = 3

(***************************************************************************)
(* C6.                                                                     *)
(***************************************************************************)
\* Offsets 5, 6, 8 of partition 0, max_messages 2, and 5 and 6 succeeded.
CapScenario(i) ==
    /\ i \in Consuming
    /\ recs[i] = <<[tp |-> 0, offset |-> 5], [tp |-> 0, offset |-> 6],
                   [tp |-> 0, offset |-> 8]>>
    /\ max_messages[i] = {2}
    /\ Committed(i)
    /\ Len(results[i]) = 2
    /\ results[i][1].status = "success"
    /\ results[i][2].status = "success"

\* C6: no committed offset lies beyond a record of the batch that the cap
\* left unexamined; offsets 5, 6, 8 with the cap reached after 5 and 6
\* succeeded commit 7.
C6_CapNeverCommitsUnexamined ==
    \A i \in Consuming :
        /\ \A k \in (idx[i] + 1)..Len(recs[i]) :
               recs[i][k].tp \in DOMAIN group_offsets
                   => group_offsets[recs[i][k].tp] <= recs[i][k].offset
        /\ CapScenario(i) => group_offsets = (0 :> 7)

C6_Witness ==
    /\ CapScenario(1)
    /\ pc[1] = "done"
    /\ idx[1] = 2
    /\ group_offsets[0] = 7

(***************************************************************************)
(* C7.                                                                     *)
(***************************************************************************)
\* The first failing check of a record value, in the order absent body,
\* decode, required fields, blank summary, number; "send" if none fails.
FirstFailingCheck(raw) ==
    IF raw.kind = "null" THEN "null message value"
    ELSE IF raw.kind = "undecodable" THEN "JSON parse error"
    ELSE IF ~raw.d.obj \/ raw.d.summary.t # "str" \/ raw.d.number.t # "str"
              \/ raw.d.company_name.t = "int"
         THEN "validation error"
    ELSE IF \A k \in DOMAIN raw.d.summary.v : raw.d.summary.v[k] = " "
         THEN "empty summary"
    ELSE IF Cardinality({k \in DOMAIN raw.d.number.v : raw.d.number.v[k] \in Digits}) < 10
         THEN "invalid number"
    ELSE "send"

\* C7 as claimed: a record whose value fails a check gets a Skipped entry
\* with the reason of the first failing check, the send is awaited only if
\* no check fails, and a send that is over leaves Failed or Success.
C7_FirstFailingStepSkips ==
    [][\A i \in Consuming :
          /\ (pc[i] = "record" /\ pc'[i] # "record")
                 => IF FirstFailingCheck(value[i]) = "send"
                    THEN pc'[i] = "status" /\ results'[i] = results[i]
                    ELSE /\ pc'[i] = "loop"
                         /\ results'[i] =
                                Append(results[i],
                                       [status |-> "skipped",
                                        error |-> FirstFailingCheck(value[i])])
          /\ (pc[i] \in {"status", "post"} /\ pc'[i] = "loop")
                 => Appends(i) /\ NewEntry(i).status \in {"success", "error"}]_vars

(***************************************************************************)
(* C8.                                                                     *)
(***************************************************************************)
\* The step issues the send request of i.
PostIssued(i) == call[i].posts = <<>> /\ call'[i].active /\ call'[i].posts # <<>>
\* The step hands the answer to the status query to send_text_message.
StatusReceived(i) == pc[i] = "status" /\ reply[i] # NoReply /\ reply'[i] = NoReply
\* Readiness as claimed: status CONNECTED, or ready, or WORKING with "me".
ClaimedReady(st) ==
    \/ st.status = FStr(CONNECTED)
    \/ st.ready
    \/ (st.status = FStr(WORKING) /\ st.me)
\* Readiness with the status text compared without regard to case.
ReadyIgnoringCase(st) ==
    /\ st.status.t # "null"
    /\ \/ Upper(st.status.v) = CONNECTED
       \/ st.ready
       \/ (Upper(st.status.v) = WORKING /\ st.me)

SendOver(i) ==
    /\ pc[i] \in {"status", "post"}
    /\ reply[i] # NoReply
    /\ reply'[i] = NoReply
    /\ ~(pc[i] = "status" /\ pc'[i] = "post")
\* An answer of the gateway that is a failure whatever the session is.
PlainFailure(rep) ==
    \/ rep.t = "status_failure"
    \/ rep.t = "post" /\ (rep.post.t # "response" \/ rep.post.code >= 400)

\* C9: in consume_notifications and in send_bulk a send that is over leaves
\* one Success or Failed entry, Failed when the gateway failed, counts a
\* failure in failed, raises nothing, and the next item is taken as if the
\* send had succeeded; a handler that has returned has an entry for every
\* item (up to the cap), however many failed, and no HTTPException of the
\* handler comes from a send.
C9_GatewayFailureNeverAborts ==
    /\ [][\A i \in Invocations :
            (flow[i] \in {"consume", "bulk"} /\ SendOver(i))
                => /\ Appends(i)
                   /\ NewEntry(i).status \in {"success", "error"}
                   /\ PlainFailure(reply[i]) => NewEntry(i).status = "error"
                   /\ failed'[i] =
                          failed[i] + (IF NewEntry(i).status = "error" THEN 1 ELSE 0)
                   /\ exc'[i] = NoExc
                   /\ response'[i].kind \in {"none", "return"}
                   /\ flow[i] = "consume" => pc'[i] = "loop" /\ idx'[i] = idx[i]
                   /\ flow[i] = "bulk" =>
                          IF idx[i] < Len(chat_ids[i])
                          THEN /\ pc'[i] = "status"
                               /\ call'[i].chat_id = chat_ids[i][idx[i] + 1]
                               /\ response'[i].kind = "none"
                          ELSE pc'[i] = "done" /\ response'[i].kind = "return"]_vars
    /\ [](\A i \in Invocations :
            /\ (flow[i] = "consume" /\ Returned(i))
                   => Len(results[i]) =
                          IF max_messages[i] # NoInt /\ IntOf(max_messages[i]) < Len(recs[i])
                          THEN IntOf(max_messages[i])
                          ELSE Len(recs[i])
            /\ (flow[i] = "bulk" /\ Returned(i))
                   => /\ Len(results[i]) = Len(chat_ids[i])
                      /\ sent[i] + failed[i] = Len(chat_ids[i])
            /\ (flow[i] \in {"consume", "bulk"} /\ pc[i] = "done" /\ ~Returned(i))
                   => response[i].detail \in
                          {"start", "getmany", "loop body", "commit", "no recipients"})

\* Every one of three records failed at the gateway and the handler returned.
C9_Witness ==
    /\ flow[1] = "consume"
    /\ Returned(1)
    /\ failed[1] = 3
    /\ \A k \in 1..3 : results[1][k].status = "error"

(***************************************************************************)
(* C10.                                                                    *)
(***************************************************************************)
\* C10: a start() that fails leaves the handler with HTTPException(503) at
\* once, nothing fetched, sent or committed; a getmany() or commit() that
\* fails leaves it with HTTPException(500) and the broker's offsets as they
\* were; the handler returns no aggregate in either case.
C10_QueueFailuresAbort ==
    /\ [][\A i \in Consuming :
            /\ (pc[i] = "start" /\ pc'[i] # "start" /\ consumer'[i].state # "started")
                   => /\ pc'[i] = "done"
                      /\ response'[i].kind = "raise"
                      /\ response'[i].code = 503
            /\ (pc[i] = "getmany" /\ pc'[i] \notin {"getmany", "loop"})
                   => pc'[i] = "stop" /\ exc'[i].code = 500
            /\ (pc[i] = "commit" /\ pc'[i] # "commit" /\ group_offsets' = group_offsets)
                   => pc'[i] = "stop" /\ exc'[i].code = 500
            /\ (pc[i] = "stop" /\ pc'[i] = "done" /\ exc[i] # NoExc)
                   => /\ response'[i].kind = "raise"
                      /\ response'[i].code = exc[i].code]_vars
    /\ [](\A i \in Consuming :
            /\ response[i].code = 503
                   => /\ consumer[i].fetches = 0
                      /\ consumer[i].commits = 0
                      /\ idx[i] = 0
                      /\ results[i] = <<>>
                      /\ call[i] = NoCall
                      /\ group_offsets = EmptyMap
            /\ exc[i].detail \in {"getmany", "commit"}
                   => /\ group_offsets = EmptyMap
                      /\ ~Returned(i)
                      /\ pc[i] = "done" => response[i].code = 500)

\* commit() raised: HTTPException(500), a frontier, and nothing committed.
C10_Witness ==
    /\ 1 \in Consuming
    /\ pc[1] = "done"
    /\ response[1] = [kind |-> "raise", code |-> 500, detail |-> "commit"]
    /\ last_committable[1] # EmptyMap
    /\ group_offsets = EmptyMap

(***************************************************************************)
(* C11.                                                                    *)
(***************************************************************************)
\* The number of entries of res with the status st.
CountStatus(res, st) == Cardinality({k \in DOMAIN res : res[k].status = st})
\* The step ends the handling of the record the loop body of i has taken.
RecordOver(i) ==
    \/ pc[i] = "record" /\ pc'[i] # "status" /\ pc'[i] # "record"
    \/ pc[i] \in {"status", "post"} /\ reply[i] # NoReply /\ pc'[i] \notin {"status", "post"}
\* The counters of i agree with its result list.
CountersAgree(i) ==
    /\ processed[i] + failed[i] + skipped[i] = Len(results[i])
    /\ processed[i] = CountStatus(results[i], "success")
    /\ failed[i] = CountStatus(results[i], "error")
    /\ skipped[i] = CountStatus(results[i], "skipped")
\* The step keeps every entry the result list of i has.
EntriesKept(i) ==
    /\ Len(results'[i]) >= Len(results[i])
    /\ \A k \in DOMAIN results[i] : results'[i][k] = results[i][k]

\* C11: every record the loop has examined leaves exactly one entry, appended
\* at the end of the list when its handling ends, and no entry is changed or
\* removed afterwards; processed + failed + skipped is the number of entries,
\* and each counter is the number of entries of its status, in every state
\* of the handler and so in what it returns.
C11_AggregateAccounting ==
    /\ [](\A i \in Consuming : CountersAgree(i))
    /\ [][\A i \in Consuming :
            /\ EntriesKept(i)
            /\ Len(results'[i]) <= Len(results[i]) + 1
            /\ Len(results'[i]) = Len(results[i]) + 1 => RecordOver(i)
            /\ RecordOver(i) => Appends(i) /\ Len(results'[i]) = idx[i]]_vars

(***************************************************************************)
(* C12.                                                                    *)
(***************************************************************************)
\* min(max_messages, number of fetched records), max_messages absent being no cap.
ExaminedBound(i) ==
    IF max_messages[i] # NoInt /\ IntOf(max_messages[i]) < Len(recs[i])
    THEN IntOf(max_messages[i])
    ELSE Len(recs[i])
\* The step leaves the loop of i without an exception.
LoopEnds(i) == pc[i] = "loop" /\ pc'[i] \in {"commit", "stop"} /\ exc'[i] = NoExc

\* C12: the loop examines the fetched records one by one from the first, in
\* the order of the sorted list, never more than min(max_messages, fetched),
\* and when it ends it has examined exactly that many, with one entry for
\* each; with max_messages absent these are all the fetched records; with
\* max_messages = 0 no record is examined, nothing is sent and no commit is made.
C12_CapBoundsExamined ==
    /\ [](\A i \in Consuming :
            /\ pc[i] \in {"loop", "record", "status", "post", "commit", "stop", "done"}
                   => /\ idx[i] <= ExaminedBound(i)
                      /\ Len(results[i]) <= idx[i]
            /\ Returned(i)
                   => /\ idx[i] = ExaminedBound(i)
                      /\ Len(results[i]) = ExaminedBound(i)
                      /\ max_messages[i] = NoInt => Len(results[i]) = Len(recs[i])
            /\ max_messages[i] = {0}
                   => /\ idx[i] = 0
                      /\ results[i] = <<>>
                      /\ call[i] = NoCall
                      /\ value[i] = NoValue
                      /\ last_committable[i] = EmptyMap
                      /\ consumer[i].commits = 0)
    /\ [][\A i \in Consuming :
            /\ idx'[i] # idx[i] => idx'[i] = idx[i] + 1 /\ pc'[i] = "record"
            /\ LoopEnds(i)
                   => idx[i] = ExaminedBound(i) /\ Len(results[i]) = idx[i]]_vars

\* Three records fetched, max_messages = 2: the handler returned two entries.
C12_Witness ==
    /\ 1 \in Consuming
    /\ Returned(1)
    /\ max_messages[1] = {2}
    /\ Len(recs[1]) = 3
    /\ Len(results[1]) = 2
    /\ idx[1] = 2

(***************************************************************************)
(* C13.                                                                    *)
(***************************************************************************)
\* Record a comes before record b in (partition, offset) order.
Before(a, b) == a.tp < b.tp \/ (a.tp = b.tp /\ a.offset < b.offset)
\* The step makes i call send_text_message.
CallBegins(i) == ~call[i].active /\ call'[i].active

\* C13: whatever the order of the partitions in the fetched batch, the list
\* the loop runs over is in strictly ascending (partition, offset) order and is
\* not changed by the loop; the loop takes its records one after the other,
\* each after the one before it in that order; the k-th entry of the result
\* list is appended, and the k-th record's send is made, while the k-th
\* record is the one being handled.
C13_AscendingOrder ==
    /\ [](\A i \in Consuming :
            \A a, b \in DOMAIN recs[i] : a < b => Before(recs[i][a], recs[i][b]))
    /\ [][\A i \in Consuming :
            /\ pc[i] \in {"loop", "record", "status", "post"} => recs'[i] = recs[i]
            /\ idx'[i] # idx[i]
                   => /\ idx'[i] = idx[i] + 1
                      /\ idx[i] >= 1 => Before(recs[i][idx[i]], recs[i][idx'[i]])
            /\ Appends(i) => Len(results'[i]) = idx[i] /\ idx'[i] = idx[i]
            /\ CallBegins(i)
                   => /\ pc[i] = "record"
                      /\ idx'[i] = idx[i]
                      /\ Len(results[i]) = idx[i] - 1]_vars

\* getmany() returned partition 1 before partition 0, and the handler has
\* handled a record of partition 0 first and two of partition 1 after it.
C13_Witness ==
    /\ 1 \in Consuming
    /\ consumer[1].batch = <<1, 0>>
    /\ Returned(1)
    /\ Len(results[1]) = 3
    /\ recs[1][1].tp = 0
    /\ recs[1][2].tp = 1
    /\ recs[1][2].offset < recs[1][3].offset

(***************************************************************************)
(* C14.                                                                    *)
(***************************************************************************)
\* getmany() of i has returned no record.
EmptyFetch(i) ==
    /\ i \in Consuming
    /\ consumer[i].fetches = 1
    /\ pc[i] \in {"loop", "record", "status", "post", "commit", "stop", "done"}
    /\ recs[i] = <<>>
    /\ exc[i].detail # "getmany"

\* C14: after an empty fetch the handler examines nothing, calls neither the
\* gateway nor commit(), raises nothing, awaits consumer.stop() once and
\* returns processed 0, failed 0, skipped 0 and an empty result list.
C14_EmptyFetch ==
    /\ [](\A i \in Invocations :
            EmptyFetch(i)
                => /\ pc[i] \in {"loop", "stop", "done"}
                   /\ idx[i] = 0
                   /\ results[i] = <<>>
                   /\ processed[i] = 0 /\ failed[i] = 0 /\ skipped[i] = 0
                   /\ last_committable[i] = EmptyMap
                   /\ call[i] = NoCall /\ reply[i] = NoReply
                   /\ consumer[i].commits = 0
                   /\ group_offsets = EmptyMap
                   /\ exc[i] = NoExc
                   /\ pc[i] = "done" => Returned(i) /\ consumer[i].stops = 1)
    /\ [][\A i \in Invocations :
            EmptyFetch(i)
                => /\ pc[i] = "loop" => pc'[i] = "stop"
                   /\ pc[i] = "stop"
                          => /\ pc'[i] = "done"
                             /\ consumer'[i].stops = 1
                             /\ response'[i] =
                                    [kind |-> "return", code |-> 200,
                                     detail |-> "success"]]_vars

\* The handler has returned after an empty fetch.
C14_Witness ==
    /\ EmptyFetch(1)
    /\ Returned(1)
    /\ results[1] = <<>>
    /\ consumer[1].stops = 1
    /\ consumer[1].commits = 0

(***************************************************************************)
(* C15.                                                                    *)
(***************************************************************************)
\* The step handles a record of i whose value is null.
NullHandled(i) == pc[i] = "record" /\ value[i].kind = "null" /\ pc'[i] # "record"
\* What a null record does whatever the frontier is.
NullSkipped(i) ==
    /\ Appends(i)
    /\ NewEntry(i) = [status |-> "skipped", error |-> "null message value"]
    /\ skipped'[i] = skipped[i] + 1
    /\ call'[i] = NoCall
    /\ reply'[i] = NoReply
    /\ pc'[i] = "loop"

\* C15 as claimed: a record with a null value yields a Skipped entry, causes
\* no gateway call, and leaves the frontier of its partition at its offset + 1.
C15_NullValueAdvances ==
    [][\A i \in Consuming :
          NullHandled(i)
              => /\ NullSkipped(i)
                 /\ Tracked(i, Current(i).tp)'
                 /\ last_committable'[i][Current(i).tp] = Current(i).offset + 1]_vars

\* C15, amended: a record with a null value yields a Skipped entry and causes
\* no gateway call; the frontier of its partition becomes its offset + 1 when
\* the partition has no frontier yet or its frontier is the record's offset,
\* and otherwise (a gap or a failed send lies before the record) no frontier
\* changes; the frontier of any other partition is never changed.
C15_NullValueAdvancesWhenContiguous ==
    [][\A i \in Consuming :
          NullHandled(i)
              => /\ NullSkipped(i)
                 /\ LET tp == Current(i).tp
                        offset == Current(i).offset
                    IN  IF ~Tracked(i, tp) \/ last_committable[i][tp] = offset
                        THEN /\ DOMAIN last_committable'[i] =
                                    DOMAIN last_committable[i] \cup {tp}
                             /\ last_committable'[i][tp] = offset + 1
                             /\ \A p \in DOMAIN last_committable[i] \ {tp} :
                                    last_committable'[i][p] = last_committable[i][p]
                        ELSE last_committable'[i] = last_committable[i]]_vars

\* A null record was skipped behind a record whose send failed, and the
\* frontier of its partition is still at the failed record.
C15_Witness ==
    /\ 1 \in Consuming
    /\ pc[1] = "loop"
    /\ idx[1] = 3
    /\ Len(results[1]) = 3
    /\ results[1][1].status = "success"
    /\ results[1][2].status = "error"
    /\ results[1][3] = [status |-> "skipped", error |-> "null message value"]
    /\ recs[1][1].tp = recs[1][3].tp
    /\ recs[1][3].offset = recs[1][2].offset + 1
    /\ last_committable[1][recs[1][3].tp] = recs[1][2].offset

(***************************************************************************)
(* C16.                                                                    *)
(***************************************************************************)
\* The step hands the answer to the send request to send_text_message.
PostReceived(i) == pc[i] = "post" /\ reply[i] # NoReply /\ reply'[i] = NoReply
\* The bodies that hold the marker "aborted" in some case.
MarkedBodies == {AbortedBody, AbortedBody_lc}
\* The category claimed for an answer to the send request.
ClaimedCategory(post) ==
    IF post.t \in {"connect_error", "timeout"} THEN "NetworkError"
    ELSE IF post.code = 0 \/ (post.code \in 500..599 /\ post.body \in MarkedBodies)
         THEN "ChannelAborted"
    ELSE IF post.code = 401 THEN "AuthFailure"
    ELSE IF post.code >= 400 THEN "GatewayError"
    ELSE "ok"

\* C16: send_message shows what send_text_message made of the answer to the
\* send request: NetworkError for a connect failure or a timeout;
\* ChannelAborted for status 0 or a 5xx status whose body holds "aborted" in
\* any case; else AuthFailure for 401; else GatewayError with the status code
\* for any status >= 400; and the response is returned in the remaining
\* case only, where the status is below 400.
C16_Categories ==
    [][\A i \in Invocations :
          (flow[i] = "single" /\ PostReceived(i))
              => LET post == reply[i].post
                     cat == ClaimedCategory(post)
                 IN  /\ pc'[i] = "done"
                     /\ response'[i] =
                            IF cat = "ok"
                            THEN [kind |-> "return", code |-> 200, detail |-> "success"]
                            ELSE IF cat = "NetworkError"
                                 THEN [kind |-> "raise", code |-> 503, detail |-> cat]
                                 ELSE [kind |-> "raise", code |-> post.code,
                                       detail |-> cat]
                     /\ response'[i].kind = "return"
                            => post.t = "response" /\ post.code < 400]_vars

\* A 500 answer was taken for an aborted request.
C16_Witness ==
    /\ flow[1] = "single"
    /\ pc[1] = "done"
    /\ response[1] = [kind |-> "raise", code |-> 500, detail |-> "ChannelAborted"]

(***************************************************************************)
(* C17.                                                                    *)
(***************************************************************************)
\* The step makes i call send_text_message anew.
FreshCall(i) == call'[i].active /\ call'[i] # call[i] /\ call'[i].posts = <<>>
\* The step issues the send request of the running call of i.
SendIssued(i) ==
    /\ pc[i] = "status" /\ pc'[i] = "post"
    /\ call[i].posts = <<>>
    /\ call'[i] = [call[i] EXCEPT !.posts = <<call[i].session_name>>]

\* C17: a running send_text_message call has issued one status query and,
\* once the query has answered ready, one send request, never more; when the
\* query fails or answers not ready the call ends with one query and no send
\* request; when the send request is answered the call ends, whatever the
\* answer; and consume_notifications and send_bulk call send_text_message
\* for an item only while the item has no entry, and every call that ends
\* leaves the item's entry, so no item is sent twice.
C17_NoInternalRetry ==
    /\ [](\A i \in Invocations :
            call[i].active
                => /\ pc[i] \in {"status", "post"}
                   /\ call[i].gets = <<call[i].session_name>>
                   /\ pc[i] = "status" => call[i].posts = <<>>
                   /\ pc[i] = "post" => call[i].posts = <<call[i].session_name>>)
    /\ [][\A i \in Invocations :
            /\ (call'[i].active /\ call'[i] # call[i]) => FreshCall(i) \/ SendIssued(i)
            /\ FreshCall(i)
                   => /\ flow[i] = "consume"
                          => pc[i] = "record" /\ Len(results'[i]) = idx'[i] - 1
                      /\ flow[i] = "bulk"
                          => idx'[i] = idx[i] + 1 /\ Len(results'[i]) = idx'[i] - 1
                      /\ flow[i] = "single" => pc[i] = "idle"
            /\ (StatusReceived(i) /\ ~SendIssued(i))
                   => /\ call[i].posts = <<>>
                      /\ call'[i] = NoCall \/ FreshCall(i)
            /\ PostReceived(i) => call'[i] = NoCall \/ FreshCall(i)
            /\ SendOver(i)
                   => /\ flow[i] \in {"consume", "bulk"}
                          => Appends(i) /\ Len(results'[i]) = idx[i]
                      /\ flow[i] = "single" => pc'[i] = "done"]_vars

\* send_bulk awaits the send request of its second recipient after the send
\* to the first one failed.
C17_Witness ==
    /\ flow[1] = "bulk"
    /\ pc[1] = "post"
    /\ idx[1] = 2
    /\ Len(results[1]) = 1
    /\ results[1][1].status = "error"
    /\ Len(call[1].gets) = 1
    /\ Len(call[1].posts) = 1

(***************************************************************************)
(* C18.                                                                    *)
(***************************************************************************)
Bulking == {i \in Invocations : flow[i] = "bulk"}

\* C18: send_bulk calls send_text_message for the addresses of the recipient
\* list one after the other in list order, the next one as soon as the call
\* before it has ended, whether it returned or raised; each call that ends
\* appends the entry of its address, success or error; what is returned has
\* one entry per address in list order and sent + failed is the length of
\* the list; no consumer is used and no offset is committed.
C18_BulkSendsEachOnce ==
    /\ [](\A i \in Bulking :
            /\ Len(results[i]) <= Len(chat_ids[i])
            /\ \A k \in DOMAIN results[i] :
                   /\ results[i][k].chat_id = chat_ids[i][k]
                   /\ results[i][k].status \in {"success", "error"}
            /\ sent[i] = CountStatus(results[i], "success")
            /\ failed[i] = CountStatus(results[i], "error")
            /\ call[i].active
                   => call[i].chat_id = chat_ids[i][idx[i]] /\ Len(results[i]) = idx[i] - 1
            /\ Returned(i)
                   => /\ Len(results[i]) = Len(chat_ids[i])
                      /\ sent[i] + failed[i] = Len(chat_ids[i])
            /\ consumer[i] = NewConsumer
            /\ last_committable[i] = EmptyMap
            /\ group_offsets = EmptyMap)
    /\ [][\A i \in Bulking :
            /\ pc[i] # "idle" => chat_ids'[i] = chat_ids[i]
            /\ idx'[i] # idx[i] => idx'[i] = idx[i] + 1 /\ FreshCall(i)
            /\ SendOver(i)
                   => /\ Appends(i)
                      /\ EntriesKept(i)
                      /\ IF idx[i] < Len(chat_ids[i])
                         THEN FreshCall(i) /\ idx'[i] = idx[i] + 1
                         ELSE Returned(i)']_vars

\* send_bulk has returned after a failed send to the first of two recipients
\* and a send to the second.
C18_Witness ==
    /\ 1 \in Bulking
    /\ Returned(1)
    /\ Len(chat_ids[1]) = 2
    /\ results[1][1].status = "error"
    /\ results[1][2].status = "success"
    /\ sent[1] = 1
    /\ failed[1] = 1

(***************************************************************************)
(* C19.                                                                    *)
(***************************************************************************)
\* The lines that name no recipient: blank, empty, a comment, too few digits.
VoidLines == {BlankText, EmptyText, CommentLine, ShortNumber}
\* The file is missing or holds lines of that kind only.
NoRecipients(file) ==
    ~file.exists \/ \A k \in DOMAIN file.lines : file.lines[k] \in VoidLines

\* C19: send_bulk resolves the recipient list to the empty list exactly when
\* the file is missing or holds only blank, comment or invalid lines, and it
\* then raises the no-recipients error (400) at once: no send_text_message
\* call, no request to the gateway, no entry and no count.
C19_NoRecipients ==
    /\ [](\A i \in Bulking :
            pc[i] # "idle"
                => /\ chat_ids[i] = <<>> <=> NoRecipients(recipients_txt)
                   /\ NoRecipients(recipients_txt)
                          => /\ pc[i] = "done"
                             /\ response[i] = [kind |-> "raise", code |-> 400,
                                               detail |-> "no recipients"]
                             /\ call[i] = NoCall
                             /\ reply[i] = NoReply
                             /\ idx[i] = 0
                             /\ results[i] = <<>>
                             /\ sent[i] = 0 /\ failed[i] = 0
                   /\ response[i].detail = "no recipients" => NoRecipients(recipients_txt))
    /\ [][recipients_txt' = recipients_txt]_vars

\* The file holds a comment, a number of five digits and a blank line, and
\* send_bulk has raised the no-recipients error.
C19_Witness ==
    /\ 1 \in Bulking
    /\ recipients_txt = [exists |-> TRUE,
                         lines |-> <<CommentLine, ShortNumber, BlankText>>]
    /\ pc[1] = "done"
    /\ response[1] = [kind |-> "raise", code |-> 400, detail |-> "no recipients"]
    /\ call[1] = NoCall

(***************************************************************************)
(* C20.                                                                    *)
(***************************************************************************)
\* The digit characters of s, in their order.
RECURSIVE KeepDigits(_)
KeepDigits(s) ==
    IF Len(s) = 0 THEN <<>>
    ELSE (IF s[1] \in {"0", "1", "2", "3", "4", "5", "6", "7", "8", "9"}
          THEN <<s[1]>> ELSE <<>>)
             \o KeepDigits([k \in 1..(Len(s) - 1) |-> s[k + 1]])

\* C20: number_to_chat_id returns None for a string with fewer than 10 digit
\* characters, and for any other string its digit characters in their order
\* followed by "@c.us"; two strings with the same digits give the same result.
C20_Normalize ==
    \A r \in returned :
        LET digits == KeepDigits(number)
        IN  /\ Len(digits) < 10 => r = <<>>
            /\ Len(digits) >= 10 => r = <<digits \o <<"@", "c", ".", "u", "s">>>>
            /\ r = number_to_chat_id(digits)

\* The call returned the ten digits of a string of eleven characters.
C20_Witness ==
    /\ number = <<"1", "-", "2", "1", "2", "1", "2", "1", "2", "1", "2">>
    /\ returned = {<<<<"1", "2", "1", "2", "1", "2", "1", "2", "1", "2",
                      "@", "c", ".", "u", "s">>>>}

(***************************************************************************)
(* C21.                                                                    *)
(***************************************************************************)
\* A line that is neither blank nor a comment: its first character that is
\* no whitespace is not "#".
Eligible(line) ==
    \E k \in DOMAIN line :
        /\ line[k] # " "
        /\ line[k] # "#"
        /\ \A j \in 1..(k - 1) : line[j] = " "
\* The lines of the file that normalize to address a.
LinesOf(lines, a) ==
    {k \in DOMAIN lines : Eligible(lines[k]) /\ number_to_chat_id(lines[k]) = <<a>>}
First(S) == CHOOSE k \in S : \A j \in S : k <= j

\* C21: what load_recipients returns for the lines of a file has no address
\* twice; an address is in it exactly when some line that is neither blank
\* nor a comment normalizes to it (number_to_chat_id), the lines that
\* number_to_chat_id rejects giving nothing; and the addresses stand in the
\* order of the first lines that gave them.  The lines "919920906247",
\* a comment, "919920906247", "12345" give the one address 919920906247@c.us.
C21_LoadRecipients ==
    \A r \in returned :
        LET lines == recipients_txt.lines
        IN  /\ \A j, k \in DOMAIN r : j # k => r[j] # r[k]
            /\ {r[k] : k \in DOMAIN r} =
                   {number_to_chat_id(lines[k])[1] :
                        k \in {n \in DOMAIN lines :
                                  /\ Eligible(lines[n])
                                  /\ number_to_chat_id(lines[n]) # <<>>}}
            /\ \A j, k \in DOMAIN r :
                   j < k => First(LinesOf(lines, r[j])) < First(LinesOf(lines, r[k]))
            /\ lines = <<PlainNumber, CommentLine, PlainNumber, ShortNumber>>
                   => r = <<PlainNumber \o Suffix>>

\* A number, the same number written with "+" and a space, a third number
\* between whitespace and a comment after whitespace gave two addresses, the
\* third number's first.
C21_Witness ==
    /\ recipients_txt = [exists |-> TRUE,
                         lines |-> <<PaddedNumber, GoodNumber, IndentedComment,
                                     PlainNumber>>]
    /\ returned = {<<OtherNumber \o Suffix, PlainNumber \o Suffix>>}

(***************************************************************************)
(* C22.                                                                    *)
(***************************************************************************)
\* The frontier of partition p over the first n records of the batch, kept
\* with a flag: the first Success or Skipped record of p sets it, a record at
\* the frontier that is no Failed one moves it, and a record of p at another
\* offset than the frontier raises the flag, after which nothing moves it.
RECURSIVE Halting(_, _, _)
Halting(i, p, n) ==
    IF n = 0 THEN [front |-> {}, halted |-> FALSE]
    ELSE LET h == Halting(i, p, n - 1)
             r == recs[i][n]
             moves == results[i][n].status \in {"success", "skipped"}
         IN  IF r.tp # p \/ h.halted THEN h
             ELSE IF h.front = {}
                  THEN IF moves THEN [front |-> {r.offset + 1}, halted |-> FALSE] ELSE h
             ELSE IF r.offset \notin h.front THEN [h EXCEPT !.halted = TRUE]
             ELSE IF moves THEN [front |-> {r.offset + 1}, halted |-> FALSE] ELSE h
\* A record of p has been handled whose offset was not the frontier of p.
Halted(i, p) == Halting(i, p, Len(results[i])).halted

\* C22: once a record of a partition has been handled whose offset was not
\* the frontier the partition had then (an offset the fetch left out, or
\* records after one that did not move the frontier), the partition's
\* frontier keeps the value it had reached before the gap, and that value is
\* what is committed: a step changes the frontier of a partition only while
\* no such record of the partition has been handled.
C22_GapHalts ==
    /\ [](\A i \in Consuming : \A p \in Partitions :
            LET h == Halting(i, p, Len(results[i]))
            IN  h.halted =>
                    /\ Tracked(i, p)
                    /\ {last_committable[i][p]} = h.front
                    /\ Committed(i) => /\ p \in DOMAIN group_offsets
                                       /\ {group_offsets[p]} = h.front)
    /\ [][\A i \in Consuming : \A p \in Partitions :
            ({last_committable'[i][q] : q \in DOMAIN last_committable'[i] \cap {p}}
                 # {last_committable[i][q] : q \in DOMAIN last_committable[i] \cap {p}})
                => ~Halted(i, p)]_vars

\* Offsets 5, 7, 8 of partition 0 all ended Success: 6 is committed.
C22_Witness ==
    /\ 1 \in Consuming
    /\ recs[1] = <<[tp |-> 0, offset |-> 5], [tp |-> 0, offset |-> 7],
                   [tp |-> 0, offset |-> 8]>>
    /\ Len(results[1]) = 3
    /\ \A k \in 1..3 : results[1][k].status = "success"
    /\ Halted(1, 0)
    /\ Committed(1)
    /\ group_offsets = (0 :> 6)

(***************************************************************************)
(* C23.                                                                    *)
(***************************************************************************)
\* C23 as claimed: the commit of an invocation never acknowledges a record
\* whose send failed: a committed offset of a partition is at most the offset
\* of every record of that partition that ended Failed in the batch, also
\* when the Failed record is the first of its partition and later records of
\* the partition succeed or are skipped.
C23_FailedNeverAcknowledged ==
    \A i \in Consuming :
        Committed(i) =>
            \A k \in DOMAIN results[i] :
                (results[i][k].status = "error" /\ recs[i][k].tp \in DOMAIN group_offsets)
                    => group_offsets[recs[i][k].tp] <= recs[i][k].offset

(***************************************************************************)
(* C24.                                                                    *)
(***************************************************************************)
Looping == {i \in Invocations : flow[i] \in {"consume", "bulk"}}
\* The step issues a request to the gateway: the status query of a new
\* send_text_message call, or the send request of the running one.
RequestIssued(i) == FreshCall(i) \/ PostIssued(i)
\* The step begins the commit.
CommitBegins(i) == consumer'[i].commits = consumer[i].commits + 1

\* C24: inside one invocation of consume_notifications or send_bulk the flow
\* is strictly sequential.  A send_text_message call runs only while the
\* invocation waits for the one request of it that is in flight, the status
\* query first and the send request after it; a request is issued only when
\* no call runs or in the step that receives the answer to the request
\* before it, and the send request only in the step that receives the answer
\* to the status query; the loop passes to the next item only when the
\* outcome of the item before it is in the result list and no call runs; and
\* the commit begins only when every item taken has its outcome and no call
\* runs.
C24_StrictlySequential ==
    /\ [](\A i \in Looping :
            /\ call[i].active <=> pc[i] \in {"status", "post"}
            /\ reply[i] # NoReply => call[i].active
            /\ call[i].active
                   => /\ Len(call[i].gets) = 1
                      /\ Len(call[i].posts) = (IF pc[i] = "post" THEN 1 ELSE 0)
                      /\ Len(results[i]) = idx[i] - 1)
    /\ [][\A i \in Looping :
            /\ RequestIssued(i)
                   => ~call[i].active \/ StatusReceived(i) \/ PostReceived(i)
            /\ PostIssued(i) => StatusReceived(i) /\ call'[i].gets = call[i].gets
            /\ idx'[i] # idx[i]
                   => /\ idx'[i] = idx[i] + 1
                      /\ Len(results'[i]) = idx[i]
                      /\ ~call[i].active \/ SendOver(i)
            /\ CommitBegins(i)
                   => /\ Len(results[i]) = idx[i]
                      /\ ~call[i].active
                      /\ pc[i] = "loop"]_vars

\* consume_notifications has sent for two records, the second send failed,
\* and it has committed and returned.
C24_Witness ==
    /\ 1 \in Consuming
    /\ Returned(1)
    /\ Len(recs[1]) = 2
    /\ Len(results[1]) = 2
    /\ results[1][1].status = "success"
    /\ results[1][2].status = "error"
    /\ consumer[1].commits = 1
    /\ call[1] = NoCall

(***************************************************************************)
(* C25.                                                                    *)
(***************************************************************************)
\* All that invocation i holds: its arguments, its consumer, its locals, its
\* send_text_message call and the answer on its way to it.
Own(i) ==
    <<pc[i], max_messages[i], consumer[i], recs[i], idx[i], results[i], processed[i],
      failed[i], skipped[i], last_committable[i], exc[i], response[i], value[i],
      call[i], reply[i]>>
\* The frontier an invocation that runs alone has after the first n records of
\* the batch of i with the outcomes they had.
RECURSIVE AloneFrontier(_, _)
AloneFrontier(i, n) ==
    IF n = 0 THEN EmptyMap
    ELSE IF results[i][n].status = "error"
         THEN AloneFrontier(i, n - 1)
         ELSE Advance(AloneFrontier(i, n - 1), recs[i][n].tp, recs[i][n].offset)

\* C25: two invocations of consume_notifications that interleave at their
\* awaits do not touch each other.  A step changes what one invocation
\* holds, its consumer included, and nothing of the other; the counters,
\* the result list and the frontier of an invocation are those of its own
\* batch and its own outcomes, as if it ran alone; an invocation whose
\* consumer started stops that consumer, once; and the committed offsets of
\* the group change only when the commit of one invocation returns, to that
\* invocation's own frontier on its partitions and not at all on the others.
C25_Isolation ==
    /\ [](\A i \in Consuming :
            /\ Len(results[i]) <= Len(recs[i])
            /\ last_committable[i] = AloneFrontier(i, Len(results[i]))
            /\ processed[i] = CountStatus(results[i], "success")
            /\ failed[i] = CountStatus(results[i], "error")
            /\ skipped[i] = CountStatus(results[i], "skipped")
            /\ consumer[i].fetches <= 1 /\ consumer[i].commits <= 1
            /\ (pc[i] = "done" /\ consumer[i].state # "new")
                   => consumer[i].state = "stopped" /\ consumer[i].stops = 1)
    /\ [][\A i, j \in Consuming :
            (i # j /\ Own(i)' # Own(i)) => Own(j)' = Own(j)]_vars
    /\ [][group_offsets' # group_offsets =>
            \E i \in Consuming :
                /\ pc[i] = "commit"
                /\ pc'[i] = "stop"
                /\ group_offsets' =
                       [p \in DOMAIN group_offsets \cup DOMAIN last_committable[i] |->
                           IF p \in DOMAIN last_committable[i]
                           THEN AloneFrontier(i, Len(results[i]))[p]
                           ELSE group_offsets[p]]]_vars

\* Both invocations fetched offsets 5 and 6 of partition 0; the second has
\* skipped 5, sent for 6 and awaits its commit with frontier 7 while the
\* first, whose send for 5 failed, awaits the gateway for 6 with no frontier.
C25_Witness ==
    /\ Consuming = {1, 2}
    /\ recs[1] = <<[tp |-> 0, offset |-> 5], [tp |-> 0, offset |-> 6]>>
    /\ recs[2] = recs[1]
    /\ pc[1] = "post"
    /\ pc[2] = "commit"
    /\ Len(results[1]) = 1
    /\ results[1][1].status = "error"
    /\ results[2][1].status = "skipped"
    /\ results[2][2].status = "success"
    /\ last_committable[1] = EmptyMap
    /\ last_committable[2] = (0 :> 7)

(***************************************************************************)
(* C26.                                                                    *)
(***************************************************************************)
\* The frontier entry of partition q, as a set: empty when q has none.
Entry(lc, q) == IF q \in DOMAIN lc THEN {lc[q]} ELSE {}
\* The frontier of q that the records of q among the first n records give,
\* with the outcomes they had, whatever the records of other partitions are.
RECURSIVE PartitionFrontier(_, _, _)
PartitionFrontier(i, q, n) ==
    IF n = 0 THEN {}
    ELSE LET f == PartitionFrontier(i, q, n - 1)
             r == recs[i][n]
         IN  IF r.tp # q \/ results[i][n].status = "error" THEN f
             ELSE IF f = {} \/ r.offset \in f THEN {r.offset + 1} ELSE f

\* C26: the partitions are tracked independently.  A step changes the
\* frontier entry of a partition only while a record of that partition is
\* handled, so handling a record of P leaves the entry of every other
\* partition as it was; and the entry of each partition is the one its own
\* records and their outcomes give, so a Failed record or a gap in one
\* partition does not hold back the frontier of another.
C26_PartitionsIndependent ==
    /\ [][\A i \in Consuming : \A q \in Partitions :
            Entry(last_committable'[i], q) # Entry(last_committable[i], q)
                => /\ pc[i] \in {"record", "status", "post"}
                   /\ Current(i).tp = q]_vars
    /\ [](\A i \in Consuming : \A q \in Partitions :
            Entry(last_committable[i], q) = PartitionFrontier(i, q, Len(results[i])))

\* Offsets 5 and 7 of partition 0 and offset 5 of partition 1 all ended
\* Success: the gap stops partition 0 at 6 and partition 1 reaches 6 after it.
C26_Witness ==
    /\ 1 \in Consuming
    /\ recs[1] = <<[tp |-> 0, offset |-> 5], [tp |-> 0, offset |-> 7],
                   [tp |-> 1, offset |-> 5]>>
    /\ Len(results[1]) = 3
    /\ \A k \in 1..3 : results[1][k].status = "success"
    /\ last_committable[1] = (0 :> 6 @@ 1 :> 6)
    /\ Committed(1)
    /\ group_offsets = (0 :> 6 @@ 1 :> 6)

(***************************************************************************)
(* C27.                                                                    *)
(***************************************************************************)
\* The offsets of the records of partition p that have an outcome.
Examined(i, p) ==
    {recs[i][k].offset : k \in {n \in DOMAIN results[i] : recs[i][n].tp = p}}
\* Those of them that ended Success or Skipped.
Passed(i, p) ==
    {recs[i][k].offset :
        k \in {n \in DOMAIN results[i] :
                  recs[i][n].tp = p /\ results[i][n].status \in {"success", "skipped"}}}

\* C27: last_committable holds a partition exactly when a record of it has
\* ended Success or Skipped; the value it holds is o + 1 for an examined
\* record of the partition at offset o, so above the smallest examined offset
\* of the partition and at most one above the largest; the value of a
\* partition never goes down and no partition leaves the map; and what a
\* commit writes is this map.
C27_CommittedShape ==
    /\ [](\A i \in Consuming : \A p \in Partitions :
            /\ Tracked(i, p) <=> Passed(i, p) # {}
            /\ Tracked(i, p)
                   => /\ last_committable[i][p] - 1 \in Examined(i, p)
                      /\ \E o \in Examined(i, p) : o < last_committable[i][p]
                      /\ \A o \in Examined(i, p) :
                             (\A x \in Examined(i, p) : x <= o)
                                 => last_committable[i][p] <= o + 1)
    /\ [](\A i \in Consuming : Committed(i) => group_offsets = last_committable[i])
    /\ [][\A i \in Consuming : \A p \in Partitions :
            Tracked(i, p) => /\ p \in DOMAIN last_committable'[i]
                             /\ last_committable'[i][p] >= last_committable[i][p]]_vars

\* Offsets 5 and 6 of partition 0 ended Success and Failed and offset 5 of
\* partition 1 ended Failed: the commit wrote 6 for partition 0 and nothing
\* for partition 1.
C27_Witness ==
    /\ 1 \in Consuming
    /\ recs[1] = <<[tp |-> 0, offset |-> 5], [tp |-> 0, offset |-> 6],
                   [tp |-> 1, offset |-> 5]>>
    /\ Len(results[1]) = 3
    /\ results[1][1].status = "success"
    /\ results[1][2].status = "error"
    /\ results[1][3].status = "error"
    /\ Committed(1)
    /\ group_offsets = (0 :> 6)

(***************************************************************************)
(* C28.                                                                    *)
(***************************************************************************)
\* s is at least 10 digits followed by "@c.us".
Canonical(s) ==
    /\ Len(s) >= 15
    /\ \A k \in 1..(Len(s) - 5) : s[k] \in {"0", "1", "2", "3", "4", "5", "6", "7", "8", "9"}
    /\ \A k \in 1..5 : s[Len(s) - 5 + k] = <<"@", "c", ".", "u", "s">>[k]

\* C28: an address that number_to_chat_id returned is returned unchanged when
\* number_to_chat_id is called with it; and a call with at least 10 digits
\* followed by "@c.us" returns its argument.
C28_Idempotent ==
    /\ \A r \in returned : r # <<>> => number_to_chat_id(r[1]) = r
    /\ (Canonical(number) /\ returned # {}) => returned = {<<number>>}

\* The second call, with the address the first one made of eleven digits,
\* returned that address.
C28_Witness ==
    /\ number = <<"1", "2", "1", "2", "1", "2", "1", "2", "1", "2", "1",
                  "@", "c", ".", "u", "s">>
    /\ returned = {<<number>>}

====
